---- MODULE Spec2Model ----
(***************************************************************************)
(* A model of smarticles: the particle simulation (force model, cell grid, *)
(* Verlet tick), the simulation worker and its event queue, and the        *)
(* neuro-evolution pipeline (Network crossover, Batch rank / evolve).      *)
(*                                                                         *)
(* Reals (f32) are rendered in fixed point: a length or coordinate x is    *)
(* the integer x * Scale, and a force value is kept as an exact numerator  *)
(* over ForceDen.  Random draws are nondeterministic choices.              *)
(***************************************************************************)
EXTENDS Integers, Sequences, FiniteSets, TLC

VARIABLES
    \* ---- force model probe (compute_force applied to one input)
    f_radius, f_power, f_result,
    \* ---- Simulation (src/src/simulation.rs)
    particle_counts, power_matrix, particle_positions, particle_prev_positions,
    cell_map,
    \* ---- one move_particles call, task by task
    tick_pc, results, tick_start, spawn_positions, ticks,
    \* ---- SimulationManager (src/src/simulation_manager.rs) and the Ui feeding it
    simulation_state, receiver, worker, ui_particle_counts, updates,
    mgr_variant, reset_log, quit_log,
    \* ---- Batch (src/src/ai/batch.rs, src/src/ai/batch_training.rs)
    variant, networks, generation, evaluation_data, ranking, evolve_status,
    evolve_calls, mutation_rate, weights, new_networks, sampled, initial_size,
    \* ---- Network::crossover (src/src/ai/net.rs)
    net_a, net_b, net_p, net_out, net_status, net_ops,
    \* ---- training worker (src/src/app/training_manager.rs, src/src/app/training.rs)
    t_variant, t_receiver, t_events, t_pc, t_networks, t_generation, t_gen_count,
    t_n, t_mode, t_evals, t_ranking, t_sent, t_budget, t_late_start,
    \* ---- the application's view of the training (src/src/app.rs, src/src/app/ui.rs)
    t_app_state, t_app_target, t_app_generation, t_out, t_req, t_resp,
    \* ---- Mat2D transposition (src/src/mat.rs)
    mat_m0, mat_m1, mat_m2, mat_src, mat_flips, mat_m2_flips, mat_read,
    \* ---- network inference in the live simulation workers
    \* (src/src/app/simulation_manager.rs, src/src/app/simulation.rs)
    i_variant, i_simulation_state, i_network, i_network_state, i_steps,
    i_target_angle, i_power_matrix, i_particle_counts, i_receiver, i_worker,
    i_sends, i_ticks, i_since, i_gap, i_log, i_ui_network_state,
    \* ---- apply_output (src/src/ai/training.rs)
    a_build, a_power_matrix, a_status, a_steps, a_wide, a_last,
    \* ---- evaluation_fn (src/src/app/training.rs)
    ev_positions, ev_target, ev_target_hits, ev_ticks_to_target, ev_steps,
    ev_near_steps, ev_status

forceVars == <<f_radius, f_power, f_result>>
simVars == <<particle_counts, power_matrix, particle_positions,
             particle_prev_positions, cell_map>>
tickVars == <<tick_pc, results, tick_start, spawn_positions, ticks>>
mgrVars == <<simulation_state, receiver, worker, ui_particle_counts, updates,
             mgr_variant, reset_log, quit_log>>
batchVars == <<variant, networks, generation, evaluation_data, ranking,
               evolve_status, evolve_calls, mutation_rate, weights, new_networks,
               sampled, initial_size>>
netVars == <<net_a, net_b, net_p, net_out, net_status, net_ops>>
trainVars == <<t_variant, t_receiver, t_events, t_pc, t_networks, t_generation,
               t_gen_count, t_n, t_mode, t_evals, t_ranking, t_sent, t_budget,
               t_late_start, t_app_state, t_app_target, t_app_generation, t_out,
               t_req, t_resp>>
matVars == <<mat_m0, mat_m1, mat_m2, mat_src, mat_flips, mat_m2_flips, mat_read>>
inferVars == <<i_variant, i_simulation_state, i_network, i_network_state, i_steps,
               i_target_angle, i_power_matrix, i_particle_counts, i_receiver,
               i_worker, i_sends, i_ticks, i_since, i_gap, i_log,
               i_ui_network_state>>
applyVars == <<a_build, a_power_matrix, a_status, a_steps, a_wide, a_last>>
evalVars == <<ev_positions, ev_target, ev_target_hits, ev_ticks_to_target,
              ev_steps, ev_near_steps, ev_status>>
extVars == <<matVars, inferVars, applyVars, evalVars>>
coreVars == <<forceVars, simVars, tickVars, mgrVars, batchVars, netVars, trainVars>>
vars == <<coreVars, extVars>>

-----------------------------------------------------------------------------
(* Fixed point and integer helpers                                         *)

\* Units per 1.0 of length.
Scale == 100

Abs(x) == IF x < 0 THEN -x ELSE x

Sign(x) == IF x < 0 THEN -1 ELSE IF x > 0 THEN 1 ELSE 0

\* Division truncating toward zero (Rust `as i32` on a quotient).
TruncDiv(a, b) == Sign(a) * Sign(b) * (Abs(a) \div Abs(b))

\* Division rounding to nearest (the fixed-point image of an f32 operation).
RoundDiv(a, b) == Sign(a) * Sign(b) * ((2 * Abs(a) + Abs(b)) \div (2 * Abs(b)))

RECURSIVE SqrtSearch(_, _, _)
SqrtSearch(n, lo, hi) ==
    IF lo >= hi THEN lo
    ELSE LET mid == (lo + hi + 1) \div 2
         IN IF mid * mid <= n THEN SqrtSearch(n, mid, hi)
            ELSE SqrtSearch(n, lo, mid - 1)

\* floor(sqrt(n)) for 0 <= n < 2^30.
ISqrt(n) == SqrtSearch(n, 0, 32767)

Min2(a, b) == IF a <= b THEN a ELSE b

Max2(a, b) == IF a >= b THEN a ELSE b

RECURSIVE SeqSum(_)
SeqSum(s) == IF s = <<>> THEN 0 ELSE Head(s) + SeqSum(Tail(s))

-----------------------------------------------------------------------------
(* Force model: compute_force, src/src/simulation.rs:13-46                 *)

FIRST_THRESHOLD == 10
SECOND_THRESHOLD == 12
PROXIMITY_POWER == -60

INTERACTION_THRESHOLD == FIRST_THRESHOLD + 2 * SECOND_THRESHOLD

\* compute_force returns force * ForceDen, an exact integer for every radius
\* that is a multiple of 1/Scale.
ForceDen == FIRST_THRESHOLD * SECOND_THRESHOLD * Scale

\* (radius / FIRST_THRESHOLD - 1.) * PROXIMITY_POWER
ProximityBranch(radius, power) ==
    (radius * SECOND_THRESHOLD - ForceDen) * PROXIMITY_POWER

\* (radius / SECOND_THRESHOLD - FIRST_THRESHOLD / SECOND_THRESHOLD) * power
IncreasingBranch(radius, power) ==
    (radius * FIRST_THRESHOLD - FIRST_THRESHOLD * FIRST_THRESHOLD * Scale) * power

\* Mutant: the decreasing zone written without its `+ 2.`.
DecreasingBranchNoOffset(radius, power) ==
    (-(radius * FIRST_THRESHOLD) + FIRST_THRESHOLD * FIRST_THRESHOLD * Scale) * power

\* (-radius / SECOND_THRESHOLD + FIRST_THRESHOLD / SECOND_THRESHOLD + 2.) * power
DecreasingBranch(radius, power) ==
    (-(radius * FIRST_THRESHOLD) + FIRST_THRESHOLD * FIRST_THRESHOLD * Scale
        + 2 * ForceDen) * power

FarBranch(radius, power) == 0

\* Mutant: the proximity zone reaching up to the second threshold.
compute_force_wide(radius, power) ==
    IF radius < (FIRST_THRESHOLD + SECOND_THRESHOLD) * Scale
        THEN ProximityBranch(radius, power)
    ELSE IF radius < INTERACTION_THRESHOLD * Scale
        THEN DecreasingBranch(radius, power)
    ELSE FarBranch(radius, power)

compute_force(radius, power) ==
    IF radius < FIRST_THRESHOLD * Scale
        THEN ProximityBranch(radius, power)
    ELSE IF radius < (FIRST_THRESHOLD + SECOND_THRESHOLD) * Scale
        THEN IncreasingBranch(radius, power)
    ELSE IF radius < INTERACTION_THRESHOLD * Scale
        THEN DecreasingBranch(radius, power)
    ELSE FarBranch(radius, power)

-----------------------------------------------------------------------------
(* Simulation state: src/src/simulation.rs:48-107, 184-253                 *)

\* Number of classes and slots per class of the model (the arrays are
\* CLASS_COUNT x MAX_PARTICLE_COUNT, as in Simulation::default).
CLASS_COUNT == 2
MAX_PARTICLE_COUNT == 4
DEFAULT_PARTICLE_COUNT == 1

DampingNum == 6
DampingDen == 100
FsfNum == 8
FsfDen == 10000
SPAWN_DENSITY == 12

Classes == 0 .. (CLASS_COUNT - 1)
Slots == 0 .. (MAX_PARTICLE_COUNT - 1)
ParticleIds == Classes \X Slots

ZeroVec == <<0, 0>>
VSub(a, b) == <<a[1] - b[1], a[2] - b[2]>>
VAdd(a, b) == <<a[1] + b[1], a[2] + b[2]>>

\* Vec2::length, rounded down to a multiple of 1/Scale.
Length(v) == ISqrt(v[1] * v[1] + v[2] * v[2])

\* Cell::CELL_SIZE = INTERACTION_THRESHOLD + 0.1
CELL_SIZE == INTERACTION_THRESHOLD * Scale + Scale \div 10

\* Cell::from_position: `(position.x / CELL_SIZE) as i32` truncates toward zero.
from_position(position) ==
    <<TruncDiv(position[1], CELL_SIZE), TruncDiv(position[2], CELL_SIZE)>>

\* Mutant: a neighbourhood without the column x - 1.
get_neighbors_no_left(cell) ==
    LET x == cell[1]
        y == cell[2]
    IN << <<x, y - 1>>,     <<x, y>>,     <<x, y + 1>>,
          <<x + 1, y - 1>>, <<x + 1, y>>, <<x + 1, y + 1>> >>

\* Cell::get_neighbors, in the order of the array.
get_neighbors(cell) ==
    LET x == cell[1]
        y == cell[2]
    IN << <<x - 1, y - 1>>, <<x - 1, y>>, <<x - 1, y + 1>>,
          <<x, y - 1>>,     <<x, y>>,     <<x, y + 1>>,
          <<x + 1, y - 1>>, <<x + 1, y>>, <<x + 1, y + 1>> >>

\* The loop `for c in 0..CLASS_COUNT { for p in 0..particle_counts[c] {` as the
\* sequence of the identifiers it visits.
RECURSIVE ActiveFrom(_, _, _)
ActiveFrom(counts, c, p) ==
    IF c >= CLASS_COUNT THEN <<>>
    ELSE IF p >= counts[c] THEN ActiveFrom(counts, c + 1, 0)
    ELSE <<<<c, p>>>> \o ActiveFrom(counts, c, p + 1)

ActiveParticles(counts) == ActiveFrom(counts, 0, 0)

ActiveSet(counts) == {q \in ParticleIds : q[2] < counts[q[1]]}

\* Mat2D index assertions: every slot the loops visit exists in the arrays.
IndexInBounds(counts) == \A c \in Classes : counts[c] <= MAX_PARTICLE_COUNT

particle_count(counts) == SeqSum([i \in 1 .. CLASS_COUNT |-> counts[i - 1]])

\* Simulation::get_neighboring_particles
RECURSIVE ConcatCells(_, _, _)
ConcatCells(cm, cells, i) ==
    IF i > Len(cells) THEN <<>>
    ELSE (IF cells[i] \in DOMAIN cm THEN cm[cells[i]] ELSE <<>>)
         \o ConcatCells(cm, cells, i + 1)

get_neighboring_particles(cm, cell) == ConcatCells(cm, get_neighbors(cell), 1)

\* Variant of organize_particles that does not clear the lists it keeps.
organize_particles_no_clear(cm, counts, positions) ==
    LET kept == {cell \in DOMAIN cm : cm[cell] # <<>>}
        active == ActiveParticles(counts)
        occupied == {from_position(positions[active[i]]) : i \in 1 .. Len(active)}
    IN [cell \in kept \cup occupied |->
            (IF cell \in kept THEN cm[cell] ELSE <<>>)
            \o SelectSeq(active, LAMBDA q : from_position(positions[q]) = cell)]

\* Variant of organize_particles that retains every cell.
organize_particles_keep_empty(cm, counts, positions) ==
    LET active == ActiveParticles(counts)
        occupied == {from_position(positions[active[i]]) : i \in 1 .. Len(active)}
    IN [cell \in DOMAIN cm \cup occupied |->
            SelectSeq(active, LAMBDA q : from_position(positions[q]) = cell)]

\* Simulation::organize_particles: cells whose list is non-empty are kept with
\* a cleared list, empty ones are removed, then every active particle is pushed
\* into the cell of its position.
organize_particles(cm, counts, positions) ==
    LET kept == {cell \in DOMAIN cm : cm[cell] # <<>>}
        active == ActiveParticles(counts)
        occupied == {from_position(positions[active[i]]) : i \in 1 .. Len(active)}
    IN [cell \in kept \cup occupied |->
            SelectSeq(active, LAMBDA q : from_position(positions[q]) = cell)]

\* Simulation::reset_particles_positions, applied to one of the two arrays.
reset_particles_positions(counts, positions) ==
    [q \in ParticleIds |-> IF q[2] < counts[q[1]] THEN ZeroVec ELSE positions[q]]

-----------------------------------------------------------------------------
(* One tick: src/src/simulation.rs:110-181                                 *)

\* `distance.normalized() * compute_force(distance.length(), power)
\*    * FORCE_SCALING_FACTOR`; Vec2::normalized leaves the zero vector as it is.
PairForce(distance, power) ==
    LET len == Length(distance)
        mag == RoundDiv(compute_force(len, power) * FsfNum,
                        FIRST_THRESHOLD * SECOND_THRESHOLD * FsfDen)
    IN IF len = 0 THEN ZeroVec
       ELSE <<RoundDiv(distance[1] * mag, len), RoundDiv(distance[2] * mag, len)>>

\* The `for (c2, p2) in neighboring_particles` loop of compute_positions.
RECURSIVE NeighborForce(_, _, _, _, _)
NeighborForce(matrix, positions, q1, neighbors, i) ==
    IF i > Len(neighbors) THEN ZeroVec
    ELSE LET q2 == neighbors[i]
             power == -matrix[<<q1[1], q2[1]>>]
             distance == VSub(positions[q2], positions[q1])
         IN VSub(NeighborForce(matrix, positions, q1, neighbors, i + 1),
                 PairForce(distance, power))

\* (prev_pos - pos) * DAMPING_FACTOR
Damping(prev_pos, pos) ==
    <<RoundDiv((prev_pos[1] - pos[1]) * DampingNum, DampingDen),
      RoundDiv((prev_pos[2] - pos[2]) * DampingNum, DampingDen)>>

\* Mutant: a task seeing the positions already computed by finished tasks.
TaskViewLive(positions, buffer) ==
    [q \in ParticleIds |-> IF q \in DOMAIN buffer THEN buffer[q][2] ELSE positions[q]]

\* The positions a per-particle task reads: `&self`, untouched while the
\* parallel iterator runs.
TaskView(positions, buffer) == positions

\* The closure of compute_positions for particle q1: ((c1, p1), (pos, new_pos)).
ComputeOne(matrix, positions, prev_positions, cm, q1) ==
    LET pos == positions[q1]
        cell == from_position(pos)
        neighboring_particles == get_neighboring_particles(cm, cell)
        prev_pos == prev_positions[q1]
        force == VAdd(NeighborForce(matrix, positions, q1, neighboring_particles, 1),
                      Damping(prev_pos, pos))
        new_pos == <<2 * pos[1] - prev_pos[1] + force[1],
                     2 * pos[2] - prev_pos[2] + force[2]>>
    IN <<pos, new_pos>>

\* Simulation::compute_positions: the collected results, by particle.
compute_positions(counts, matrix, positions, prev_positions, cm) ==
    [q \in ActiveSet(counts) |->
        ComputeOne(matrix, positions, prev_positions, cm, q)]

\* Mutant: the commit storing new_pos as the previous position.
CommitPrevNew(prev_positions, res) ==
    [q \in ParticleIds |-> IF q \in DOMAIN res THEN res[q][2] ELSE prev_positions[q]]

\* The commit loop of move_particles: prev_positions[index] = pos.
CommitPrev(prev_positions, res) ==
    [q \in ParticleIds |-> IF q \in DOMAIN res THEN res[q][1] ELSE prev_positions[q]]

\* The commit loop of move_particles: positions[index] = new_pos.
CommitPos(positions, res) ==
    [q \in ParticleIds |-> IF q \in DOMAIN res THEN res[q][2] ELSE positions[q]]


-----------------------------------------------------------------------------
(* Idle values: each specification leaves the other components untouched   *)

ForceIdle == f_radius = 0 /\ f_power = 0 /\ f_result = <<>>

SimIdle ==
    /\ particle_counts = [c \in Classes |-> 0]
    /\ power_matrix = [ij \in Classes \X Classes |-> 0]
    /\ particle_positions = [q \in ParticleIds |-> ZeroVec]
    /\ particle_prev_positions = [q \in ParticleIds |-> ZeroVec]
    /\ cell_map = <<>>

TickIdle ==
    /\ tick_pc = "idle"
    /\ results = <<>>
    /\ tick_start = <<>>
    /\ spawn_positions = <<>>
    /\ ticks = 0

MgrIdle ==
    /\ simulation_state = "Paused"
    /\ receiver = <<>>
    /\ worker = "idle"
    /\ ui_particle_counts = [c \in Classes |-> 0]
    /\ updates = 0
    /\ mgr_variant = "none"
    /\ reset_log = <<>>
    /\ quit_log = <<>>

BatchIdle ==
    /\ variant = "none"
    /\ networks = <<>>
    /\ generation = 0
    /\ ranking = <<>>
    /\ evolve_status = "none"
    /\ evolve_calls = 0
    /\ evaluation_data = <<>>
    /\ mutation_rate = <<>>
    /\ weights = <<>>
    /\ new_networks = <<>>
    /\ sampled = <<>>
    /\ initial_size = 0

NetIdle ==
    /\ net_a = <<>> /\ net_b = <<>> /\ net_p = <<>> /\ net_out = <<>>
    /\ net_status = "none" /\ net_ops = 0

MatIdle ==
    /\ mat_m0 = <<>> /\ mat_m1 = <<>> /\ mat_m2 = <<>> /\ mat_src = <<>>
    /\ mat_flips = 0 /\ mat_m2_flips = 0 /\ mat_read = <<>>

TrainIdle ==
    /\ t_variant = "none" /\ t_receiver = <<>> /\ t_events = <<>> /\ t_pc = "none"
    /\ t_networks = <<>> /\ t_generation = 0 /\ t_gen_count = 0 /\ t_n = 0
    /\ t_mode = "none" /\ t_evals = <<>> /\ t_ranking = <<>> /\ t_sent = <<>>
    /\ t_budget = 0 /\ t_late_start = FALSE
    /\ t_app_state = "none" /\ t_app_target = 0 /\ t_app_generation = 0
    /\ t_out = <<>> /\ t_req = <<>> /\ t_resp = <<>>

InferIdle ==
    /\ i_variant = "none" /\ i_simulation_state = "none" /\ i_network = <<>>
    /\ i_network_state = "none" /\ i_steps = 0 /\ i_target_angle = 0
    /\ i_power_matrix = 0 /\ i_particle_counts = 0 /\ i_receiver = <<>>
    /\ i_worker = "none" /\ i_sends = 0 /\ i_ticks = 0 /\ i_since = 0 /\ i_gap = 0
    /\ i_log = <<>> /\ i_ui_network_state = "none"

ApplyIdle ==
    /\ a_build = "none" /\ a_power_matrix = <<>> /\ a_status = "none" /\ a_steps = 0
    /\ a_wide = FALSE /\ a_last = <<>>

EvalIdle ==
    /\ ev_positions = <<>> /\ ev_target = <<>> /\ ev_target_hits = 0
    /\ ev_ticks_to_target = <<>> /\ ev_steps = 0 /\ ev_near_steps = 0
    /\ ev_status = "none"

ExtIdle == MatIdle /\ InferIdle /\ ApplyIdle /\ EvalIdle

CoreIdle ==
    /\ ForceIdle /\ SimIdle /\ TickIdle /\ MgrIdle /\ BatchIdle /\ NetIdle
    /\ TrainIdle

-----------------------------------------------------------------------------
(* SpecTick: a Simulation configured by its owner, spawned and moved; one  *)
(* move_particles call is organize_particles, then the per-particle tasks  *)
(* of the parallel iterator in any order, then the sequential commit.      *)

MAX_POWER == 100

\* move_particles calls followed after a spawn.
MaxTicks == 10

\* particle_counts of the task-by-task specification.
CountChoices ==
    { [c \in Classes |-> 1],
      [c \in Classes |-> IF c = 0 THEN 2 ELSE IF c = 1 THEN 1 ELSE 0] }

MatrixChoices ==
    { [ij \in Classes \X Classes |-> v] : v \in {0, MAX_POWER, -MAX_POWER} }
    \cup { [ij \in Classes \X Classes |->
                IF ij[1] = ij[2] THEN MAX_POWER ELSE -MAX_POWER] }

\* Spawn draws: particle number i of the loop lands on point (i % period) of a
\* 3 x 3 grid of the given spacing (spacing 0: every draw gives the centre;
\* period 2: the draws alternate between two points).
LayoutSpacings == {0, 5 * Scale, 10 * Scale}

LayoutChoices == [spacing : LayoutSpacings, period : {2, 9}]

GridPoint(i, spacing) ==
    <<((i % 3) - 1) * spacing, (((i \div 3) % 3) - 1) * spacing>>

\* `distance = random().sqrt() * spawn_radius` with random() in [0, 1):
\* |pos| < spawn_radius = sqrt(particle_count / PI) * SPAWN_DENSITY.
InSpawnDisk(pos, n) ==
    355 * ((pos[1] * pos[1] + pos[2] * pos[2]) \div Scale)
        < 113 * SPAWN_DENSITY * SPAWN_DENSITY * n * Scale

\* Index of q in the spawn loop.
LoopIndex(counts, q) ==
    SeqSum([i \in 1 .. q[1] |-> counts[i - 1]]) + q[2] + 1

DrawnPoint(counts, q, layout) ==
    GridPoint((LoopIndex(counts, q) - 1) % layout.period, layout.spacing)

\* Simulation::spawn with the draws of one layout.
spawn(counts, positions, layout) ==
    [q \in ParticleIds |->
        IF q[2] < counts[q[1]]
            THEN DrawnPoint(counts, q, layout)
            ELSE positions[q]]

SpawnAdmissible(counts, layout) ==
    \A q \in ActiveSet(counts) :
        InSpawnDisk(DrawnPoint(counts, q, layout), particle_count(counts))

TickInit ==
    /\ particle_counts \in CountChoices
    /\ power_matrix \in MatrixChoices
    /\ particle_positions = [q \in ParticleIds |-> ZeroVec]
    /\ particle_prev_positions = [q \in ParticleIds |-> ZeroVec]
    /\ cell_map = organize_particles(<<>>, particle_counts, particle_positions)
    /\ tick_pc = "idle"
    /\ results = <<>>
    /\ tick_start = <<>>
    /\ spawn_positions = <<>>
    /\ ticks = 0
    /\ ForceIdle /\ MgrIdle /\ BatchIdle /\ NetIdle /\ TrainIdle /\ ExtIdle

TickSpawn ==
    /\ tick_pc \in {"idle", "done"}
    /\ \E layout \in LayoutChoices :
        /\ SpawnAdmissible(particle_counts, layout)
        /\ particle_positions' = spawn(particle_counts, particle_positions, layout)
        /\ particle_prev_positions' =
                spawn(particle_counts, particle_prev_positions, layout)
    /\ spawn_positions' = particle_positions'
    /\ ticks' = 0
    /\ tick_pc' = "idle"
    /\ UNCHANGED <<particle_counts, power_matrix, cell_map, results, tick_start>>
    /\ UNCHANGED <<forceVars, mgrVars, batchVars, netVars, trainVars, extVars>>

\* move_particles, first statement: self.organize_particles()
BeginMove ==
    /\ tick_pc \in {"idle", "done"}
    /\ spawn_positions # <<>>
    /\ ticks < MaxTicks
    /\ cell_map' = organize_particles(cell_map, particle_counts, particle_positions)
    /\ tick_pc' = "map"
    /\ results' = <<>>
    /\ tick_start' = [positions |-> particle_positions,
                      prev_positions |-> particle_prev_positions,
                      matrix |-> power_matrix,
                      counts |-> particle_counts,
                      cell_map |-> cell_map']
    /\ UNCHANGED <<particle_counts, power_matrix, particle_positions,
                   particle_prev_positions, spawn_positions, ticks>>
    /\ UNCHANGED <<forceVars, mgrVars, batchVars, netVars, trainVars, extVars>>

\* One task of the parallel iterator of compute_positions.
Task(q) ==
    /\ tick_pc = "map"
    /\ q \in ActiveSet(particle_counts) \ DOMAIN results
    /\ results' = results @@
            (q :> ComputeOne(power_matrix, TaskView(particle_positions, results),
                             particle_prev_positions, cell_map, q))
    /\ UNCHANGED <<simVars, tick_pc, tick_start, spawn_positions, ticks>>
    /\ UNCHANGED <<forceVars, mgrVars, batchVars, netVars, trainVars, extVars>>

\* After collect(): the for_each that writes the two arrays.
Commit ==
    /\ tick_pc = "map"
    /\ DOMAIN results = ActiveSet(particle_counts)
    /\ particle_prev_positions' = CommitPrev(particle_prev_positions, results)
    /\ particle_positions' = CommitPos(particle_positions, results)
    /\ tick_pc' = "done"
    /\ ticks' = ticks + 1
    /\ UNCHANGED <<particle_counts, power_matrix, cell_map, results, tick_start,
                   spawn_positions>>
    /\ UNCHANGED <<forceVars, mgrVars, batchVars, netVars, trainVars, extVars>>

TickNext ==
    \/ TickSpawn
    \/ BeginMove
    \/ \E q \in ParticleIds : Task(q)
    \/ Commit

SpecTick == TickInit /\ [][TickNext]_vars


-----------------------------------------------------------------------------
(* SpecSim: the public operations of Simulation, each as one step          *)

\* particle_counts of the operation-level specification: one particle per
\* class, and two active classes of 4 particles each.
SimCountChoices ==
    { [c \in Classes |-> 1],
      [c \in Classes |-> IF c < 2 THEN 4 ELSE 0] }

\* Simulation::move_particles as a function of the state before the call:
\* the cell map it leaves, and the two arrays after the commit.
move_particles(counts, matrix, positions, prev_positions, cm) ==
    LET organized == organize_particles(cm, counts, positions)
        res == compute_positions(counts, matrix, positions, prev_positions, organized)
    IN [cell_map |-> organized,
        particle_prev_positions |-> CommitPrev(prev_positions, res),
        particle_positions |-> CommitPos(positions, res)]

SimInit ==
    /\ particle_counts \in SimCountChoices
    /\ power_matrix \in MatrixChoices
    /\ particle_positions = [q \in ParticleIds |-> ZeroVec]
    /\ particle_prev_positions = [q \in ParticleIds |-> ZeroVec]
    /\ cell_map = organize_particles(<<>>, particle_counts, particle_positions)
    /\ tick_pc = "idle"
    /\ results = <<>>
    /\ tick_start = <<>>
    /\ spawn_positions = <<>>
    /\ ticks = 0
    /\ ForceIdle /\ MgrIdle /\ BatchIdle /\ NetIdle /\ TrainIdle /\ ExtIdle

SimSpawn ==
    /\ \E layout \in LayoutChoices :
        /\ SpawnAdmissible(particle_counts, layout)
        /\ particle_positions' = spawn(particle_counts, particle_positions, layout)
        /\ particle_prev_positions' =
                spawn(particle_counts, particle_prev_positions, layout)
    /\ spawn_positions' = particle_positions'
    /\ ticks' = 0
    /\ tick_pc' = "spawned"
    /\ UNCHANGED <<particle_counts, power_matrix, cell_map, results, tick_start>>
    /\ UNCHANGED <<forceVars, mgrVars, batchVars, netVars, trainVars, extVars>>

SimMove ==
    /\ spawn_positions # <<>>
    /\ ticks < MaxTicks
    /\ LET after == move_particles(particle_counts, power_matrix, particle_positions,
                                   particle_prev_positions, cell_map)
       IN /\ cell_map' = after.cell_map
          /\ particle_prev_positions' = after.particle_prev_positions
          /\ particle_positions' = after.particle_positions
    /\ tick_start' = [positions |-> particle_positions,
                      prev_positions |-> particle_prev_positions,
                      matrix |-> power_matrix,
                      counts |-> particle_counts,
                      cell_map |-> cell_map']
    /\ ticks' = ticks + 1
    /\ tick_pc' = "done"
    /\ UNCHANGED <<particle_counts, power_matrix, results, spawn_positions>>
    /\ UNCHANGED <<forceVars, mgrVars, batchVars, netVars, trainVars, extVars>>

SimReset ==
    /\ tick_pc # "reset"
    /\ particle_positions' =
            reset_particles_positions(particle_counts, particle_positions)
    /\ particle_prev_positions' =
            reset_particles_positions(particle_counts, particle_prev_positions)
    /\ spawn_positions' = <<>>
    /\ ticks' = 0
    /\ tick_pc' = "reset"
    /\ UNCHANGED <<particle_counts, power_matrix, cell_map, results, tick_start>>
    /\ UNCHANGED <<forceVars, mgrVars, batchVars, netVars, trainVars, extVars>>

SimOrganize ==
    /\ cell_map' = organize_particles(cell_map, particle_counts, particle_positions)
    /\ tick_pc' = "organized"
    /\ UNCHANGED <<particle_counts, power_matrix, particle_positions,
                   particle_prev_positions, results, tick_start, spawn_positions, ticks>>
    /\ UNCHANGED <<forceVars, mgrVars, batchVars, netVars, trainVars, extVars>>

SimNext == SimSpawn \/ SimMove \/ SimReset \/ SimOrganize

SpecSim == SimInit /\ [][SimNext]_vars


-----------------------------------------------------------------------------
(* SpecForce: compute_force applied to one (radius, power)                 *)

\* Radii 0, 1/4, 2/4, ... up to MaxRadiusSteps quarter units.
MaxRadiusSteps == 160

RadiusChoices ==
    {k * (Scale \div 4) : k \in 0 .. MaxRadiusSteps}
    \cup {t * Scale + d : t \in {FIRST_THRESHOLD, FIRST_THRESHOLD + SECOND_THRESHOLD,
                                 INTERACTION_THRESHOLD},
                          d \in {-1, 0, 1}}

PowerChoices == {-MAX_POWER, -1, 0, 1, MAX_POWER}

ForceInit ==
    /\ f_radius \in RadiusChoices
    /\ f_power \in PowerChoices
    /\ f_result = <<>>
    /\ SimIdle /\ TickIdle /\ MgrIdle /\ BatchIdle /\ NetIdle /\ TrainIdle /\ ExtIdle

ForceApply ==
    /\ f_result = <<>>
    /\ f_result' = <<compute_force(f_radius, f_power)>>
    /\ UNCHANGED <<f_radius, f_power>>
    /\ UNCHANGED <<simVars, tickVars, mgrVars, batchVars, netVars, trainVars, extVars>>

ForceNext == ForceApply

SpecForce == ForceInit /\ [][ForceNext]_vars

-----------------------------------------------------------------------------
(* Claims about the force model and the tick                               *)

\* C7: compute_force is 0 from FIRST_THRESHOLD + 2*SECOND_THRESHOLD on; at each
\* zone boundary the branch below and the branch above agree (0 at the first
\* threshold, power at the second, 0 at the third), and one step of 1/Scale in
\* radius never changes the force by more than the steepest slope; below
\* FIRST_THRESHOLD the force is the same for every power and is largest in
\* magnitude at radius 0.
C7_ForceShape ==
    f_result # <<>> =>
        LET force == f_result[1]
        IN  /\ f_radius >= INTERACTION_THRESHOLD * Scale => force = 0
            /\ f_radius = FIRST_THRESHOLD * Scale =>
                    /\ force = 0
                    /\ ProximityBranch(f_radius, f_power) = force
            /\ f_radius = (FIRST_THRESHOLD + SECOND_THRESHOLD) * Scale =>
                    /\ force = f_power * ForceDen
                    /\ IncreasingBranch(f_radius, f_power) = force
            /\ f_radius = INTERACTION_THRESHOLD * Scale =>
                    DecreasingBranch(f_radius, f_power) = force
            /\ Abs(compute_force(f_radius + 1, f_power) - force)
                    <= Max2(SECOND_THRESHOLD * Abs(PROXIMITY_POWER),
                            FIRST_THRESHOLD * Abs(f_power))
            /\ f_radius < FIRST_THRESHOLD * Scale =>
                    /\ \A p \in PowerChoices : compute_force(f_radius, p) = force
                    /\ Abs(force) <= Abs(compute_force(0, f_power))
                    /\ force > 0

C7_Witness ==
    /\ f_radius = (FIRST_THRESHOLD + SECOND_THRESHOLD) * Scale
    /\ f_power = MAX_POWER
    /\ f_result = <<MAX_POWER * ForceDen>>

\* The candidates of q in the state the tick started from, written without the
\* cell map: the active particles whose cell is at most one cell away from
\* q's cell on each axis, in loop order.
NearCandidates(counts, positions, q) ==
    SelectSeq(ActiveParticles(counts),
              LAMBDA q2 :
                  LET c1 == from_position(positions[q])
                      c2 == from_position(positions[q2])
                  IN Abs(c1[1] - c2[1]) <= 1 /\ Abs(c1[2] - c2[2]) <= 1)

\* C3: while the per-particle tasks of a move_particles call run, nothing they
\* read (positions, previous positions, power matrix, cell map) differs from
\* its value at the start of the tick, every buffered result is the one
\* computed from that start state, and after the commit both arrays are the
\* function of the start state alone, whatever order the tasks ran in.
C3_ReadThenCommit ==
    /\ tick_pc = "map" =>
        /\ particle_positions = tick_start.positions
        /\ particle_prev_positions = tick_start.prev_positions
        /\ power_matrix = tick_start.matrix
        /\ cell_map = tick_start.cell_map
        /\ \A q \in DOMAIN results :
                results[q] = ComputeOne(tick_start.matrix, tick_start.positions,
                                        tick_start.prev_positions,
                                        tick_start.cell_map, q)
    /\ tick_pc = "done" =>
        LET res == compute_positions(tick_start.counts, tick_start.matrix,
                                     tick_start.positions, tick_start.prev_positions,
                                     tick_start.cell_map)
        IN /\ particle_positions = CommitPos(tick_start.positions, res)
           /\ particle_prev_positions = CommitPrev(tick_start.prev_positions, res)

C3_Witness ==
    /\ tick_pc = "done"
    /\ Cardinality(ActiveSet(particle_counts)) >= 3
    /\ \E q1, q2 \in ActiveSet(particle_counts) :
        /\ q1 # q2
        /\ particle_positions[q1] # tick_start.positions[q1]
        /\ particle_positions[q2] # tick_start.positions[q2]

\* C5: after move_particles every active particle is at 2*pos - prev_pos + F,
\* F being the sum over its neighbor candidates of the scaled pair force (with
\* the negated matrix entry as power) plus (prev_pos - pos) * DAMPING_FACTOR,
\* all taken from the state before the call; and its previous position is the
\* position it had before the call.
C5_VerletUpdate ==
    tick_pc = "done" =>
        \A q \in ActiveSet(tick_start.counts) :
            LET pos == tick_start.positions[q]
                prev_pos == tick_start.prev_positions[q]
                F == VAdd(NeighborForce(tick_start.matrix, tick_start.positions, q,
                              NearCandidates(tick_start.counts, tick_start.positions, q),
                              1),
                          Damping(prev_pos, pos))
            IN /\ particle_positions[q] =
                    <<2 * pos[1] - prev_pos[1] + F[1], 2 * pos[2] - prev_pos[2] + F[2]>>
               /\ particle_prev_positions[q] = pos

C5_Witness ==
    /\ tick_pc = "done"
    /\ ticks >= 2
    /\ \E q \in ActiveSet(particle_counts) :
        /\ particle_positions[q] # tick_start.positions[q]
        /\ tick_start.positions[q] # tick_start.prev_positions[q]
        /\ \E q2 \in ActiveSet(particle_counts) :
            Length(VSub(tick_start.positions[q2], tick_start.positions[q]))
                >= FIRST_THRESHOLD * Scale

\* The scenario of C6: two active classes of 4 particles, all-zero matrix.
ZeroMatrixScenario ==
    /\ particle_counts = [c \in Classes |-> IF c < 2 THEN 4 ELSE 0]
    /\ \A ij \in Classes \X Classes : power_matrix[ij] = 0
    /\ spawn_positions # <<>>

AtSpawnPositions ==
    \A q \in ActiveSet(particle_counts) : particle_positions[q] = spawn_positions[q]

\* No two particles are closer than FIRST_THRESHOLD at spawn, unless they are
\* at the very same point.
SpawnSeparated ==
    \A q1, q2 \in ActiveSet(particle_counts) :
        \/ spawn_positions[q1] = spawn_positions[q2]
        \/ Length(VSub(spawn_positions[q1], spawn_positions[q2]))
                >= FIRST_THRESHOLD * Scale

\* C6 as stated: with 2 classes of 4 particles and an all-zero power matrix,
\* after 10 calls of move_particles every particle is at its spawn position.
C6_Original == (ZeroMatrixScenario /\ ticks = 10) => AtSpawnPositions

\* C6 amended: the same, provided every two particles are spawned either at the
\* same point or at least FIRST_THRESHOLD apart (the proximity repulsion does
\* not depend on the matrix); then no particle moves, after any number of calls.
C6_ZeroMatrixSeparated ==
    (ZeroMatrixScenario /\ SpawnSeparated) => AtSpawnPositions

C6_Witness ==
    /\ ZeroMatrixScenario
    /\ SpawnSeparated
    /\ ticks = 10
    /\ AtSpawnPositions
    /\ \E q1, q2 \in ActiveSet(particle_counts) :
            spawn_positions[q1] # spawn_positions[q2]


-----------------------------------------------------------------------------
(* SpecGrid: two particles moving around the cell boundaries, on both      *)
(* sides of the origin, the cell map being rebuilt after each move         *)

\* Number of position changes followed from the initial state.
MaxGridMoves == 3

GridCounts == [c \in Classes |-> IF c < 2 THEN 1 ELSE 0]

\* Coordinates on, just before and halfway between the multiples of
\* CELL_SIZE, with both signs.
GridXs ==
    {sgn * (k * CELL_SIZE + d) :
        sgn \in {-1, 1}, k \in 0 .. 1, d \in {0, CELL_SIZE \div 2, CELL_SIZE - 1}}

GridYs == {-CELL_SIZE, -(CELL_SIZE \div 2), 0, CELL_SIZE - 1}

GridPositions == GridXs \X GridYs

GridInit ==
    /\ particle_counts = GridCounts
    /\ power_matrix = [ij \in Classes \X Classes |-> 0]
    /\ particle_positions = [q \in ParticleIds |-> ZeroVec]
    /\ particle_prev_positions = [q \in ParticleIds |-> ZeroVec]
    /\ cell_map = <<>>
    /\ tick_pc = "placed"
    /\ results = <<>>
    /\ tick_start = <<>>
    /\ spawn_positions = <<>>
    /\ ticks = 0
    /\ ForceIdle /\ MgrIdle /\ BatchIdle /\ NetIdle /\ TrainIdle /\ ExtIdle

\* organize_particles, as move_particles calls it at the start of a tick;
\* tick_start keeps the cell map the call started from.
GridOrganize ==
    /\ tick_pc = "placed"
    /\ cell_map' = organize_particles(cell_map, particle_counts, particle_positions)
    /\ tick_start' = [cell_map |-> cell_map]
    /\ tick_pc' = "organized"
    /\ UNCHANGED <<particle_counts, power_matrix, particle_positions,
                   particle_prev_positions, results, spawn_positions, ticks>>
    /\ UNCHANGED <<forceVars, mgrVars, batchVars, netVars, trainVars, extVars>>

\* A particle has moved and is at rest somewhere else (both pub arrays hold
\* its new place); the cell map still describes the old positions.
GridPlace ==
    /\ tick_pc = "organized"
    /\ ticks < MaxGridMoves
    /\ \E q \in ActiveSet(particle_counts), a \in GridPositions :
        /\ a # particle_positions[q]
        /\ particle_positions' = [particle_positions EXCEPT ![q] = a]
        /\ particle_prev_positions' = [particle_prev_positions EXCEPT ![q] = a]
    /\ ticks' = ticks + 1
    /\ tick_pc' = "placed"
    /\ UNCHANGED <<particle_counts, power_matrix, cell_map, results, tick_start,
                   spawn_positions>>
    /\ UNCHANGED <<forceVars, mgrVars, batchVars, netVars, trainVars, extVars>>

GridNext == GridOrganize \/ GridPlace

SpecGrid == GridInit /\ [][GridNext]_vars

SeqRange(seq) == {seq[i] : i \in 1 .. Len(seq)}

WithinInteraction(a, b) ==
    LET d == VSub(a, b)
    IN d[1] * d[1] + d[2] * d[2]
            < (INTERACTION_THRESHOLD * Scale) * (INTERACTION_THRESHOLD * Scale)

\* C4: once the cell map is rebuilt at the start of a tick, for every two
\* active particles A and B closer than INTERACTION_THRESHOLD, B is in the list
\* get_neighboring_particles returns for the cell of A, whatever the signs of
\* the coordinates.
C4_NoMissedPair ==
    tick_pc = "organized" =>
        \A A, B \in ActiveSet(particle_counts) :
            WithinInteraction(particle_positions[A], particle_positions[B]) =>
                B \in SeqRange(get_neighboring_particles(
                                    cell_map, from_position(particle_positions[A])))

C4_Witness ==
    /\ tick_pc = "organized"
    /\ ticks = MaxGridMoves
    /\ LET a == particle_positions[<<0, 0>>]
           b == particle_positions[<<1, 0>>]
       IN /\ WithinInteraction(a, b)
          /\ a[1] < 0 /\ a[2] < 0 /\ b[1] < 0
          /\ from_position(a)[1] = from_position(b)[1] + 1
          /\ from_position(a)[2] # from_position(b)[2]
          /\ <<1, 0>> \in SeqRange(get_neighboring_particles(cell_map, from_position(a)))


\* The places (cell, index) at which the cell map cm lists the particle q.
Listings(cm, q) ==
    {place \in {<<cell, i>> : cell \in DOMAIN cm, i \in 1 .. MAX_PARTICLE_COUNT * CLASS_COUNT} :
        place[2] <= Len(cm[place[1]]) /\ cm[place[1]][place[2]] = q}

\* cm lists every active particle exactly once, in the cell of its position in
\* `positions`, and lists no inactive particle.
IndexConsistent(cm, counts, positions) ==
    /\ \A q \in ActiveSet(counts) :
            Listings(cm, q) = {place \in Listings(cm, q) :
                                place[1] = from_position(positions[q])}
            /\ Cardinality(Listings(cm, q)) = 1
    /\ \A q \in ParticleIds \ ActiveSet(counts) : Listings(cm, q) = {}

OccupiedCells(counts, positions) ==
    {from_position(positions[q]) : q \in ActiveSet(counts)}

\* C16 as stated: after organize_particles no cell of the map has an empty
\* list.
C16_Original ==
    tick_pc = "organized" => \A cell \in DOMAIN cell_map : cell_map[cell] # <<>>

\* C16: after organize_particles every identifier in the map is an active
\* particle filed under the cell of its current position (nothing is left
\* over from the previous rebuild); a cell whose list is empty is one that held
\* particles before the call, and a cell that was already empty before the
\* call and is still unoccupied is absent.
C16_NoStaleOneRebuildLag ==
    tick_pc = "organized" =>
        LET before == tick_start.cell_map
            occupied == OccupiedCells(particle_counts, particle_positions)
        IN /\ \A cell \in DOMAIN cell_map :
                \A i \in 1 .. Len(cell_map[cell]) :
                    /\ cell_map[cell][i] \in ActiveSet(particle_counts)
                    /\ from_position(particle_positions[cell_map[cell][i]]) = cell
           /\ \A cell \in DOMAIN cell_map :
                cell_map[cell] = <<>> <=> cell \notin occupied
           /\ \A cell \in DOMAIN cell_map \ occupied :
                cell \in DOMAIN before /\ before[cell] # <<>>
           /\ \A cell \in DOMAIN before \ occupied :
                before[cell] = <<>> => cell \notin DOMAIN cell_map

\* A rebuild that keeps, with an empty list, a cell the particles have left,
\* and drops a cell that was already empty.
C16_Witness ==
    /\ tick_pc = "organized"
    /\ \E cell \in DOMAIN cell_map : cell_map[cell] = <<>>
    /\ \E cell \in DOMAIN tick_start.cell_map :
            tick_start.cell_map[cell] = <<>> /\ cell \notin DOMAIN cell_map

\* floor(a / b) for b > 0.
FloorDiv(a, b) == IF a >= 0 THEN a \div b ELSE -((b - 1 - a) \div b)

\* C14 as stated: the cell an active particle is filed under is
\* (floor(x / CELL_SIZE), floor(y / CELL_SIZE)) for every position, negative
\* coordinates included.
C14_FloorCell ==
    tick_pc = "organized" =>
        \A q \in ActiveSet(particle_counts) :
            LET pos == particle_positions[q]
                cell == <<FloorDiv(pos[1], CELL_SIZE), FloorDiv(pos[2], CELL_SIZE)>>
            IN /\ from_position(pos) = cell
               /\ cell \in DOMAIN cell_map
               /\ q \in SeqRange(cell_map[cell])

-----------------------------------------------------------------------------
(* SpecBatch: Batch::new, rank and evolve of src/src/ai/batch.rs and       *)
(* src/src/ai/batch_training.rs.  Networks are opaque: a network is the    *)
(* number of the generation that produced it.                              *)

\* Largest batch, largest score key, number of evolve calls followed.
MaxBatch == 4
MaxScoreKey == 3
MaxGenerations == 2

\* An f32 score is its rank in the total order of total_cmp: key 0 is -0.0,
\* key 1 is +0.0, key k >= 2 is the value k - 1.
ScoreKeys == 0 .. MaxScoreKey

ScoreValue(key) == IF key = 0 THEN 0 ELSE key - 1

\* f32::total_cmp: -1 Less, 0 Equal, 1 Greater; -0.0 is below +0.0.
total_cmp(key1, key2) == IF key1 < key2 THEN -1 ELSE IF key1 > key2 THEN 1 ELSE 0

\* Mutant: the comparator with its arguments in the other order (ascending).
RankLessAscending(e1, e2) == total_cmp(e1[2], e2[2]) = -1

\* The closure of sort_by: |(_, score_1), (_, score_2)| score_2.total_cmp(score_1)
\* answers Less.
RankLess(e1, e2) == total_cmp(e2[2], e1[2]) = -1

\* slice::sort_by is stable: an element goes before the first one it is Less
\* than, after every one it is Equal to.
InsertStable(sorted, e) ==
    LET later == {j \in 1 .. Len(sorted) : RankLess(e, sorted[j])}
        pos == IF later = {} THEN Len(sorted) + 1
               ELSE CHOOSE j \in later : \A k \in later : j <= k
    IN SubSeq(sorted, 1, pos - 1) \o <<e>> \o SubSeq(sorted, pos, Len(sorted))

RECURSIVE sort_by(_, _)
sort_by(seq, n) ==
    IF n = 0 THEN <<>> ELSE InsertStable(sort_by(seq, n - 1), seq[n])

\* Batch::rank, compute_score applied to entry i giving scores[i + 1].
rank(scores) ==
    sort_by([i \in 1 .. Len(scores) |-> <<i - 1, scores[i]>>], Len(scores))

\* mutation_rate as <<numerator, denominator>>: 0.5, 1.0 and 2.0 (the value
\* training_manager.rs passes to batch.rs); batch_training.rs is only given
\* rates its assertion accepts.
MutationRates(v) ==
    IF v = "batch" THEN {<<1, 2>>, <<1, 1>>, <<2, 1>>} ELSE {<<1, 2>>, <<1, 1>>}

\* The scores min and max are folded over: all of them in batch.rs, the first
\* l / 2 + 1 of the ranking in batch_training.rs.
\* Variant of NormalisedOver that folds over the top half only.
NormalisedOverTopHalf(v, rk) == SubSeq(rk, 1, Len(rk) \div 2)

NormalisedOver(v, rk) ==
    IF v = "batch" THEN rk ELSE SubSeq(rk, 1, Min2(Len(rk), Len(rk) \div 2 + 1))

FoldMin(rk) ==
    CHOOSE m \in {ScoreValue(rk[i][2]) : i \in 1 .. Len(rk)} :
        \A i \in 1 .. Len(rk) : m <= ScoreValue(rk[i][2])

FoldMax(rk) ==
    CHOOSE m \in {ScoreValue(rk[i][2]) : i \in 1 .. Len(rk)} :
        \A i \in 1 .. Len(rk) : m >= ScoreValue(rk[i][2])

\* Variant of evolve_weights whose third-quarter branch runs to the end of the
\* ranking.
evolve_weights_open_tail(v, l, rk) ==
    LET over == NormalisedOver(v, rk)
        min == FoldMin(over)
        max == FoldMax(over)
    IN [k \in 1 .. l |->
            LET i == k - 1
            IN IF i < l \div 2
                   THEN [nan |-> max = min, num |-> 2 * (ScoreValue(rk[i + 1][2]) - min)]
               ELSE IF l >= 2
                   THEN [nan |-> max = min, num |-> ScoreValue(rk[l \div 2][2]) - min]
               ELSE [nan |-> FALSE, num |-> 0]]

\* The weights vector of evolve.  A weight is a numerator over the common
\* denominator 2 * (max - min), or NaN when that denominator is 0 (0. / 0.).
evolve_weights(v, l, rk) ==
    LET over == NormalisedOver(v, rk)
        min == FoldMin(over)
        max == FoldMax(over)
    IN [k \in 1 .. l |->
            LET i == k - 1
            IN IF i < l \div 2
                   THEN [nan |-> max = min, num |-> 2 * (ScoreValue(rk[i + 1][2]) - min)]
               ELSE IF i < (3 * l) \div 4
                   THEN [nan |-> max = min, num |-> ScoreValue(rk[l \div 2][2]) - min]
               ELSE [nan |-> FALSE, num |-> 0]]

\* WeightedIndex::new
WeightedIndex_new(w) ==
    IF Len(w) = 0 THEN "NoItem"
    ELSE IF \E k \in 1 .. Len(w) : w[k].nan \/ w[k].num < 0 THEN "InvalidWeight"
    ELSE IF \A k \in 1 .. Len(w) : w[k].num = 0 THEN "AllWeightsZero"
    ELSE "Ok"

\* The indices dist.sample can return.
Support(w) == {i \in 0 .. Len(w) - 1 : ~w[i + 1].nan /\ w[i + 1].num > 0}

\* The assertion at the top of Network::mutate, for the rate num / den.
MutateAccepts(num, den) == 0 <= num /\ num <= den


\* The two mutate calls of one iteration of batch.rs for the sampled ranking
\* positions s1, s2: mutate(0.5 * rate) when they are the same (crossover needs
\* no check: its probability 0.99 * w1 / (w1 + w2) is within [0, 1]), then
\* mutate(rate * (i1 + i2 + l) / (3 * l)).
BatchChildAccepted(rate, l, s1, s2) ==
    /\ s1 = s2 => MutateAccepts(rate[1], 2 * rate[2])
    /\ MutateAccepts(rate[1] * (s1 + s2 + l), rate[2] * 3 * l)

\* The mutate call of one iteration of batch_training.rs for the network
\* indices i1, i2: rate * (2k + l) / (3l) / exp(generation / (1000k)) with
\* k = (i1 + i2) / 2 + 1; the exponential is at least 1 and only lowers a rate
\* that is positive.
TrainingChildAccepted(rate, l, i1, i2) ==
    MutateAccepts(rate[1] * (i1 + i2 + 2 + l), rate[2] * 3 * l)

\* The rate of the final mutate call of batch.rs, <<numerator, denominator>>,
\* for the sampled ranking positions s1, s2:
\* mutation_rate * (i1 + i2 + l) as f32 / (3 * l) as f32.
BatchFinalRate(rate, l, s1, s2) == <<rate[1] * (s1 + s2 + l), rate[2] * 3 * l>>

\* The rate of the mutate call of batch_training.rs: i1 and i2 are
\* `ranking[dist.sample(..)].0`, the indices in the batch of the networks at
\* the sampled positions, and k = (i1 + i2) / 2 + 1.  The rate is
\* mutation_rate * (2k + l) / (3l) / exp(generation / (1000k)); the divisor is
\* 1 at generation 0 and at a later generation it decreases when k grows, so
\* two rates of one generation compare as these fractions do.
TrainingFinalRate(rate, l, rk, s1, s2) ==
    <<rate[1] * (rk[s1 + 1][1] + rk[s2 + 1][1] + 2 + l), rate[2] * 3 * l>>

FinalRate(v, rate, l, rk, s1, s2) ==
    IF v = "batch" THEN BatchFinalRate(rate, l, s1, s2)
    ELSE TrainingFinalRate(rate, l, rk, s1, s2)

\* The selection probability batch.rs passes to crossover for the sampled
\* positions s1 # s2, <<numerator, denominator>>:
\* 0.99 * weights[i1] / (weights[i1] + weights[i2]).
CrossoverProbability(w, s1, s2) ==
    <<99 * w[s1 + 1].num, 100 * (w[s1 + 1].num + w[s2 + 1].num)>>

\* a <= b for two fractions with positive denominators.
FracLeq(a, b) == a[1] * b[2] <= b[1] * a[2]

BatchInit ==
    /\ variant \in {"batch", "batch_training"}
    /\ \E l \in 0 .. MaxBatch :
        /\ networks = [i \in 1 .. l |-> 0]
        /\ initial_size = l
    /\ generation = 0
    /\ evaluation_data = <<>>
    /\ ranking = <<>>
    /\ evolve_status = "new"
    /\ evolve_calls = 0
    /\ mutation_rate = <<>>
    /\ weights = <<>>
    /\ new_networks = <<>>
    /\ sampled = <<>>
    /\ ForceIdle /\ SimIdle /\ TickIdle /\ MgrIdle /\ NetIdle /\ TrainIdle /\ ExtIdle

\* Batch::rank over one evaluation result per network.
Rank ==
    /\ evolve_status \in {"new", "done"}
    /\ evolve_calls < MaxGenerations
    /\ \E scores \in [1 .. Len(networks) -> ScoreKeys] :
        /\ evaluation_data' = scores
        /\ ranking' = rank(scores)
    /\ evolve_status' = "ranked"
    /\ UNCHANGED <<variant, networks, generation, evolve_calls, mutation_rate,
                   weights, new_networks, sampled, initial_size>>
    /\ UNCHANGED <<forceVars, simVars, tickVars, mgrVars, netVars, trainVars, extVars>>

\* Batch::evolve up to `WeightedIndex::new(weights).unwrap()`.
EvolveBegin ==
    /\ evolve_status = "ranked"
    /\ \E rate \in MutationRates(variant) :
        /\ mutation_rate' = rate
        /\ IF variant = "batch_training" /\ ~MutateAccepts(rate[1], rate[2])
              THEN /\ weights' = <<>>
                   /\ evolve_status' = "aborted"
              ELSE /\ weights' = evolve_weights(variant, Len(ranking), ranking)
                   /\ evolve_status' =
                        IF WeightedIndex_new(weights') = "Ok" THEN "sampling"
                        ELSE "aborted"
    /\ evolve_calls' = evolve_calls + 1
    /\ new_networks' = <<>>
    /\ UNCHANGED <<variant, networks, generation, evaluation_data, ranking, sampled,
                   initial_size>>
    /\ UNCHANGED <<forceVars, simVars, tickVars, mgrVars, netVars, trainVars, extVars>>

\* One iteration of `while new_networks.len() < l`.
EvolveStep ==
    /\ evolve_status = "sampling"
    /\ Len(new_networks) < Len(ranking)
    /\ \E s1 \in Support(weights), s2 \in Support(weights) :
        /\ sampled' = <<s1, s2>>
        /\ LET l == Len(ranking)
               accepted ==
                   IF variant = "batch"
                       THEN BatchChildAccepted(mutation_rate, l, s1, s2)
                       ELSE TrainingChildAccepted(mutation_rate, l,
                                ranking[s1 + 1][1], ranking[s2 + 1][1])
           IN IF accepted
                 THEN /\ new_networks' = Append(new_networks, generation + 1)
                      /\ evolve_status' = "sampling"
                 ELSE /\ new_networks' = new_networks
                      /\ evolve_status' = "aborted"
    /\ UNCHANGED <<variant, networks, generation, evaluation_data, ranking,
                   evolve_calls, mutation_rate, weights, initial_size>>
    /\ UNCHANGED <<forceVars, simVars, tickVars, mgrVars, netVars, trainVars, extVars>>

\* `self.networks = new_networks; self.generation += 1;`
EvolveEnd ==
    /\ evolve_status = "sampling"
    /\ Len(new_networks) = Len(ranking)
    /\ networks' = new_networks
    /\ generation' = generation + 1
    /\ evolve_status' = "done"
    /\ evaluation_data' = <<>>
    /\ ranking' = <<>>
    /\ mutation_rate' = <<>>
    /\ weights' = <<>>
    /\ new_networks' = <<>>
    /\ sampled' = <<>>
    /\ UNCHANGED <<variant, evolve_calls, initial_size>>
    /\ UNCHANGED <<forceVars, simVars, tickVars, mgrVars, netVars, trainVars, extVars>>

BatchNext == Rank \/ EvolveBegin \/ EvolveStep \/ EvolveEnd

SpecBatch == BatchInit /\ [][BatchNext]_vars

\* C21 as stated: at a fixed generation the rate of the final mutate pass is
\* nondecreasing in the ranking positions of the two parents: when each parent
\* of child A is ranked at least as well as the corresponding parent of child
\* B, A is mutated at a rate no higher than B.
C21_RateFollowsRanking ==
    evolve_status = "sampling" =>
        \A a1, a2, b1, b2 \in Support(weights) :
            (a1 <= b1 /\ a2 <= b2) =>
                FracLeq(FinalRate(variant, mutation_rate, Len(ranking), ranking, a1, a2),
                        FinalRate(variant, mutation_rate, Len(ranking), ranking, b1, b2))

\* C22 as stated: in batch.rs, for sampled ranking positions i1 # i2 the
\* selection probability passed to crossover is in [0, 1], above 1/2 when i1 is
\* ranked strictly better than i2 and below 1/2 when it is ranked strictly
\* worse.
C22_ProbabilityFavoursBetter ==
    (evolve_status = "sampling" /\ variant = "batch") =>
        \A s1, s2 \in Support(weights) :
            s1 # s2 =>
                LET prob == CrossoverProbability(weights, s1, s2)
                IN /\ FracLeq(<<0, 1>>, prob) /\ FracLeq(prob, <<1, 1>>)
                   /\ s1 < s2 => ~FracLeq(prob, <<1, 2>>)
                   /\ s1 > s2 => ~FracLeq(<<1, 2>>, prob)

\* C1 as stated: evolve always completes, and whenever no evolve call is
\* running the batch has its initial size and generation equals the number of
\* evolve calls made.
C1_EvolveCompletes ==
    /\ evolve_status # "aborted"
    /\ evolve_status \in {"new", "ranked", "done"} =>
            /\ Len(networks) = initial_size
            /\ generation = evolve_calls

AllTied(rk) == \A i, j \in 1 .. Len(rk) : ScoreValue(rk[i][2]) = ScoreValue(rk[j][2])

\* C9 as stated: when the scores the weights are normalised with are all equal,
\* evolve produces no NaN weight and does not abort.
C9_TiesComplete ==
    (/\ evolve_status \in {"sampling", "aborted"}
     /\ Len(ranking) >= 2
     /\ AllTied(NormalisedOver(variant, ranking)))
        => /\ \A k \in 1 .. Len(weights) : ~weights[k].nan
           /\ evolve_status # "aborted"

RankingIsPermutation ==
    /\ Len(ranking) = Len(evaluation_data)
    /\ {ranking[i][1] : i \in 1 .. Len(ranking)} = 0 .. Len(evaluation_data) - 1
    /\ \A i \in 1 .. Len(ranking) : ranking[i][2] = evaluation_data[ranking[i][1] + 1]

\* C2 as stated: the ranking holds each index once with its score, scores
\* descending, and two entries with equal scores are in increasing index order.
C2_Original ==
    evolve_status = "ranked" =>
        /\ RankingIsPermutation
        /\ \A i, j \in 1 .. Len(ranking) :
            i < j =>
                /\ ScoreValue(ranking[i][2]) >= ScoreValue(ranking[j][2])
                /\ ScoreValue(ranking[i][2]) = ScoreValue(ranking[j][2])
                        => ranking[i][1] < ranking[j][1]

\* C2 amended: the ranking holds each index once with its score, scores
\* descending in the order of total_cmp (so +0.0 comes before -0.0), and two
\* entries whose scores are the same in that order (the same value, zeros of
\* the same sign) are in increasing index order.
C2_RankStableDescending ==
    evolve_status = "ranked" =>
        /\ RankingIsPermutation
        /\ \A i, j \in 1 .. Len(ranking) :
            i < j =>
                /\ ScoreValue(ranking[i][2]) >= ScoreValue(ranking[j][2])
                /\ total_cmp(ranking[i][2], ranking[j][2]) >= 0
                /\ total_cmp(ranking[i][2], ranking[j][2]) = 0
                        => ranking[i][1] < ranking[j][1]

C2_Witness ==
    /\ evolve_status = "ranked"
    /\ evaluation_data = <<1, 2, 1, 2>>
    /\ ranking = << <<1, 2>>, <<3, 2>>, <<0, 1>>, <<2, 1>> >>


-----------------------------------------------------------------------------
(* SpecNet: Network::crossover (src/src/ai/net.rs) over Mat2D              *)
(* (src/src/mat.rs).  A scalar is an integer tag.                          *)

\* The ranking positions of the bottom quarter: i >= floor(3 * l / 4).
BottomQuarter(l) == {i \in 0 .. l - 1 : i >= (3 * l) \div 4}

\* C11: in evolve with a ranking of length l, neither sampled parent position
\* is at or beyond floor(3 * l / 4), and no network standing at such a position
\* is a parent of a child of the next generation.
C11_BottomQuarterNeverParent ==
    sampled # <<>> =>
        LET l == Len(ranking)
        IN /\ sampled[1] \notin BottomQuarter(l)
           /\ sampled[2] \notin BottomQuarter(l)
           /\ \A i \in BottomQuarter(l) :
                ranking[i + 1][1] \notin {ranking[sampled[1] + 1][1],
                                          ranking[sampled[2] + 1][1]}

\* A child has been produced from a ranking that has a bottom quarter and a
\* third quarter.
C11_Witness ==
    /\ evolve_status = "sampling"
    /\ Len(ranking) = MaxBatch
    /\ BottomQuarter(Len(ranking)) # {}
    /\ Len(new_networks) >= 2
    /\ sampled # <<>>
    /\ \E k \in 1 .. Len(weights) : k - 1 >= Len(ranking) \div 2 /\ weights[k].num > 0

\* The ranking positions whose scores min and max are folded over: all of them
\* in batch.rs, the first floor(l / 2) + 1 in batch_training.rs.
FoldedPositions(v, l) ==
    IF v = "batch" THEN 0 .. l - 1 ELSE {i \in 0 .. l - 1 : i <= l \div 2}

SetMin(S) == CHOOSE m \in S : \A x \in S : m <= x

SetMax(S) == CHOOSE m \in S : \A x \in S : m >= x

PositionScores(P) == {ScoreValue(ranking[i + 1][2]) : i \in P}

\* C12 as stated: min and max are taken over the top half only, so whenever
\* the weights are built the worst member of the top half has weight 0.
C12_Original ==
    (evolve_status = "sampling" /\ Len(ranking) >= 2)
        => weights[Len(ranking) \div 2].num = 0

\* C12: the weight of ranking position i < floor(l / 2) is
\* (score_i - min) / (max - min) with min and max the smallest and largest
\* score among the folded positions (the whole ranking in batch.rs, positions
\* 0 .. floor(l / 2) in batch_training.rs); the best position has weight 1.
C12_TopHalfWeights ==
    (evolve_status = "sampling" /\ Len(ranking) >= 2)
        => LET l == Len(ranking)
               S == PositionScores(FoldedPositions(variant, l))
               min == SetMin(S)
               max == SetMax(S)
           IN /\ max > min
              /\ \A i \in 0 .. l \div 2 - 1 :
                    /\ ~weights[i + 1].nan
                    /\ weights[i + 1].num * (max - min)
                         = 2 * (ScoreValue(ranking[i + 1][2]) - min) * (max - min)
              /\ weights[1].num = 2 * (max - min)

\* Weights built for a ranking whose top half's worst member scores above the
\* minimum that is folded in, so that its weight is positive.
C12_Witness ==
    /\ evolve_status = "sampling"
    /\ Len(ranking) = MaxBatch
    /\ variant = "batch_training"
    /\ weights[Len(ranking) \div 2].num > 0
    /\ weights[Len(ranking) \div 2].num < weights[1].num

\* Networks are generated from seeds 1 .. MaxSeed.
MaxSeed == 2

\* Mat2D::num_rows, Mat2D::num_columns
Mat_num_rows(m) == IF ~m.transpose THEN m.num_rows ELSE m.num_columns

Mat_num_columns(m) == IF ~m.transpose THEN m.num_columns ELSE m.num_rows

\* Index<(usize, usize)> for Mat2D: the position in vec, from 1.
MatOffset(m, index) ==
    LET ij == IF ~m.transpose THEN index ELSE <<index[2], index[1]>>
    IN ij[2] + ij[1] * m.num_columns + 1

MatGet(m, index) == m.vec[MatOffset(m, index)]

MatSet(m, index, value) == [m EXCEPT !.vec[MatOffset(m, index)] = value]

\* Mat2D::enumerate: every (row, column) of the matrix, row by row.
Mat_enumerate(m) ==
    [k \in 1 .. Mat_num_rows(m) * Mat_num_columns(m) |->
        <<(k - 1) \div Mat_num_columns(m), (k - 1) % Mat_num_columns(m)>>]

\* Mat2D::from_rows
Mat_from_rows(vec, num_rows, num_columns) ==
    [num_rows |-> num_rows, num_columns |-> num_columns, vec |-> vec,
     transpose |-> FALSE]

\* A Layer as Layer::random builds it (weights output_size x input_size,
\* biases output_size x 1), its scalars being tags derived from the seed.
SeededLayer(seed, depth, input_size, output_size, activation_fn) ==
    [input_size |-> input_size,
     output_size |-> output_size,
     weights |-> Mat_from_rows([k \in 1 .. output_size * input_size |->
                                    100 * seed + 10 * depth + k],
                               output_size, input_size),
     biases |-> Mat_from_rows([k \in 1 .. output_size |->
                                    100 * seed + 10 * depth + 5 + k],
                              output_size, 1),
     activation_fn |-> activation_fn]

\* Layer sizes of the networks tried: <<input_size, output_size>> per layer.
ShapeChoices == { << <<2, 2>> >>, << <<1, 2>>, <<2, 1>> >> }

\* Layer lists whose consecutive sizes do not match.
MismatchedShapeChoices == { << <<1, 2>>, <<1, 1>> >> }

\* The assert_eq of Network::new over layers.windows(2).
LayersMatch(layers) ==
    \A k \in 1 .. Len(layers) - 1 : layers[k].output_size = layers[k + 1].input_size

\* Variant of Network::new without the check.
Network_new_unchecked(layers) == "built"

\* Network::new: the network is built, or the assertion fails.
Network_new(layers) == IF LayersMatch(layers) THEN "built" ELSE "aborted"

\* Mat2D::random: a num_rows x num_columns matrix; every entry is the drawn
\* value `noise`.
Mat_random(noise, num_rows, num_columns) ==
    [num_rows |-> num_rows, num_columns |-> num_columns,
     vec |-> [k \in 1 .. num_rows * num_columns |-> noise], transpose |-> FALSE]

\* The two assertions of Add for &Mat2D.
MatAddDefined(lhs, rhs) ==
    /\ Mat_num_rows(lhs) = Mat_num_rows(rhs)
    /\ Mat_num_columns(lhs) = Mat_num_columns(rhs)

\* Add for &Mat2D: entry (i, j) of the sum, row by row.
Mat_add(lhs, rhs) ==
    Mat_from_rows(
        [k \in 1 .. Mat_num_rows(lhs) * Mat_num_columns(lhs) |->
            LET i == (k - 1) \div Mat_num_columns(lhs)
                j == (k - 1) % Mat_num_columns(lhs)
            IN MatGet(lhs, <<i, j>>) + MatGet(rhs, <<i, j>>)],
        Mat_num_rows(lhs), Mat_num_columns(lhs))

\* Mat2D::map with |x| x / 2.
Mat_map_half(m) ==
    Mat_from_rows([k \in 1 .. Len(m.vec) |-> m.vec[k] \div 2],
                  Mat_num_rows(m), Mat_num_columns(m))

\* Network::mutate runs to its end: every addition finds equal dimensions.
MutateDefined(self) ==
    \A i \in 1 .. Len(self) :
        /\ MatAddDefined(self[i].weights,
                         Mat_random(0, self[i].output_size, self[i].input_size))
        /\ MatAddDefined(self[i].biases, Mat_random(0, self[i].output_size, 1))

\* Network::mutate with the draws of the weights all `noise_w` and those of
\* the biases all `noise_b`.
mutate(self, noise_w, noise_b) ==
    [i \in 1 .. Len(self) |->
        [self[i] EXCEPT
            !.weights = Mat_add(self[i].weights,
                                Mat_random(noise_w, self[i].output_size,
                                           self[i].input_size)),
            !.biases = Mat_add(self[i].biases,
                               Mat_random(noise_b, self[i].output_size, 1))]]

AverageDefined(self, other) ==
    /\ Len(other) >= Len(self)
    /\ \A i \in 1 .. Len(self) :
        /\ MatAddDefined(self[i].weights, other[i].weights)
        /\ MatAddDefined(self[i].biases, other[i].biases)

\* Network::average
average(self, other) ==
    [i \in 1 .. Len(self) |->
        [self[i] EXCEPT
            !.weights = Mat_map_half(Mat_add(self[i].weights, other[i].weights)),
            !.biases = Mat_map_half(Mat_add(self[i].biases, other[i].biases))]]

ActivationChoices == {"Relu", "Tanh"}

\* Network::new over seeded layers (consecutive sizes match in ShapeChoices).
SeededNetwork(seed, shape, activation_fn) ==
    [i \in 1 .. Len(shape) |->
        SeededLayer(seed, i, shape[i][1], shape[i][2], activation_fn)]

\* selection_probability as <<numerator, denominator>>.
ProbabilityChoices == {<<0, 1>>, <<1, 2>>, <<1, 1>>}

\* Rng::gen_bool(p): always false for p = 0, always true for p = 1.
gen_bool(p) == IF p[1] = 0 THEN {FALSE} ELSE IF p[1] = p[2] THEN {TRUE} ELSE BOOLEAN

\* Mutant: the two branches of the `if rng.gen_bool(..)` exchanged.
PickSwapped(draw, self_value, other_value) ==
    IF draw THEN other_value ELSE self_value

\* `if rng.gen_bool(selection_probability) { self.. } else { other.. }`
Pick(draw, self_value, other_value) ==
    IF draw THEN self_value ELSE other_value

\* The inner loop of crossover over positions k .. of one layer; draws[d] and
\* draws[d + 1] are the two gen_bool results of the iteration.
RECURSIVE CrossLayer(_, _, _, _, _, _, _)
CrossLayer(self_layer, other_layer, out_layer, positions, k, draws, d) ==
    IF k > Len(positions) THEN out_layer
    ELSE LET row == positions[k][1]
             column == positions[k][2]
             w == Pick(draws[d], MatGet(self_layer.weights, <<row, column>>),
                                 MatGet(other_layer.weights, <<row, column>>))
             b == Pick(draws[d + 1], MatGet(self_layer.biases, <<row, 0>>),
                                     MatGet(other_layer.biases, <<row, 0>>))
             next == [out_layer EXCEPT
                        !.weights = MatSet(out_layer.weights, <<row, column>>, w),
                        !.biases = MatSet(out_layer.biases, <<row, 0>>, b)]
         IN CrossLayer(self_layer, other_layer, next, positions, k + 1, draws, d + 2)

\* Number of gen_bool calls made for the layers before layer i.
RECURSIVE DrawsBefore(_, _)
DrawsBefore(self, i) ==
    IF i <= 1 THEN 0
    ELSE DrawsBefore(self, i - 1) + 2 * Len(Mat_enumerate(self[i - 1].weights))

\* Network::crossover, `out = self.to_owned()` then the two loops.
crossover(self, other, draws) ==
    [i \in 1 .. Len(self) |->
        CrossLayer(self[i], other[i], self[i], Mat_enumerate(self[i].weights), 1,
                   draws, DrawsBefore(self, i) + 1)]

\* Operations followed on one pair of networks.
MaxNetOps == 2

NoiseChoices == {-1, 1}

\* Two layer lists of the same sizes handed to Network::new.
NetInit ==
    /\ \E shape \in ShapeChoices \cup MismatchedShapeChoices,
          seed_a \in 1 .. MaxSeed, seed_b \in 1 .. MaxSeed,
          fn_a \in ActivationChoices, fn_b \in ActivationChoices :
        /\ net_a = SeededNetwork(seed_a, shape, fn_a)
        /\ net_b = SeededNetwork(seed_b, shape, fn_b)
    /\ net_status = Network_new(net_a)
    /\ net_p \in ProbabilityChoices
    /\ net_out = <<>>
    /\ net_ops = 0
    /\ ForceIdle /\ SimIdle /\ TickIdle /\ MgrIdle /\ BatchIdle /\ TrainIdle /\ ExtIdle

\* net_out = net_a.crossover(net_b, net_p)
Crossover ==
    /\ net_status = "built"
    /\ net_out = <<>>
    /\ net_ops < MaxNetOps
    /\ \E draws \in [1 .. DrawsBefore(net_a, Len(net_a) + 1) -> gen_bool(net_p)] :
        net_out' = crossover(net_a, net_b, draws)
    /\ net_ops' = net_ops + 1
    /\ UNCHANGED <<net_a, net_b, net_p, net_status>>
    /\ UNCHANGED <<forceVars, simVars, tickVars, mgrVars, batchVars, trainVars, extVars>>

\* net_a.mutate(rate) with a rate the assertion accepts.
Mutate ==
    /\ net_status = "built"
    /\ net_out = <<>>
    /\ net_ops < MaxNetOps
    /\ IF MutateDefined(net_a)
          THEN /\ \E noise_w \in NoiseChoices, noise_b \in NoiseChoices :
                    net_a' = mutate(net_a, noise_w, noise_b)
               /\ net_status' = "built"
          ELSE /\ net_a' = net_a
               /\ net_status' = "aborted"
    /\ net_ops' = net_ops + 1
    /\ UNCHANGED <<net_b, net_p, net_out>>
    /\ UNCHANGED <<forceVars, simVars, tickVars, mgrVars, batchVars, trainVars, extVars>>

\* net_a = net_a.average(net_b)
Average ==
    /\ net_status = "built"
    /\ net_out = <<>>
    /\ net_ops < MaxNetOps
    /\ IF AverageDefined(net_a, net_b)
          THEN /\ net_a' = average(net_a, net_b)
               /\ net_status' = "built"
          ELSE /\ net_a' = net_a
               /\ net_status' = "aborted"
    /\ net_ops' = net_ops + 1
    /\ UNCHANGED <<net_b, net_p, net_out>>
    /\ UNCHANGED <<forceVars, simVars, tickVars, mgrVars, batchVars, trainVars, extVars>>

\* The child replaces its parent in the batch (`self.networks = new_networks`)
\* and is a parent of the following operations.
NextGeneration ==
    /\ net_status = "built"
    /\ net_out # <<>>
    /\ net_ops < MaxNetOps
    /\ net_a' = net_out
    /\ net_out' = <<>>
    /\ UNCHANGED <<net_b, net_p, net_status, net_ops>>
    /\ UNCHANGED <<forceVars, simVars, tickVars, mgrVars, batchVars, trainVars, extVars>>

NetNext == Crossover \/ Mutate \/ Average \/ NextGeneration

SpecNet == NetInit /\ [][NetNext]_vars

\* Every weight and bias of the child is the scalar at the same place in a or b.
ScalarsFromParents ==
    \A i \in 1 .. Len(net_out) :
        /\ \A k \in 1 .. Len(net_out[i].weights.vec) :
                net_out[i].weights.vec[k]
                    \in {net_a[i].weights.vec[k], net_b[i].weights.vec[k]}
        /\ \A k \in 1 .. Len(net_out[i].biases.vec) :
                net_out[i].biases.vec[k]
                    \in {net_a[i].biases.vec[k], net_b[i].biases.vec[k]}

\* C8 as stated: crossover(b, 1.0) is a, crossover(b, 0.0) is b in every field
\* of every layer, and for any p every scalar comes from a or b.
C8_Original ==
    net_out # <<>> =>
        /\ net_p = <<1, 1>> => net_out = net_a
        /\ net_p = <<0, 1>> => net_out = net_b
        /\ ScalarsFromParents

\* C8 amended: crossover(b, 1.0) is a; crossover(b, 0.0) has every weight and
\* every bias of b, with the sizes and the activation function of a in every
\* layer (it is b exactly when the activation functions of a and b are the
\* same); for any p every scalar comes from a or b.
C8_CrossoverScalars ==
    net_out # <<>> =>
        /\ net_p = <<1, 1>> => net_out = net_a
        /\ net_p = <<0, 1>> =>
            /\ \A i \in 1 .. Len(net_out) :
                /\ net_out[i].weights = net_b[i].weights
                /\ net_out[i].biases = net_b[i].biases
                /\ net_out[i].activation_fn = net_a[i].activation_fn
                /\ net_out[i].input_size = net_a[i].input_size
                /\ net_out[i].output_size = net_a[i].output_size
            /\ (\A i \in 1 .. Len(net_a) :
                    net_a[i].activation_fn = net_b[i].activation_fn)
                    => net_out = net_b
        /\ Len(net_out) = Len(net_a)
        /\ ScalarsFromParents

C8_Witness ==
    /\ net_out # <<>>
    /\ net_p = <<0, 1>>
    /\ Len(net_a) = 2
    /\ net_a[1].weights # net_b[1].weights
    /\ net_a[1].activation_fn # net_b[1].activation_fn
    /\ net_out[1].weights = net_b[1].weights
    /\ net_out[2].biases = net_b[2].biases
    /\ net_out # net_b


\* Consecutive layers match, and every layer's weights are
\* output_size x input_size and its biases output_size x 1.
WellShaped(net) ==
    /\ LayersMatch(net)
    /\ \A i \in 1 .. Len(net) :
        /\ Mat_num_rows(net[i].weights) = net[i].output_size
        /\ Mat_num_columns(net[i].weights) = net[i].input_size
        /\ Len(net[i].weights.vec) = net[i].output_size * net[i].input_size
        /\ Mat_num_rows(net[i].biases) = net[i].output_size
        /\ Mat_num_columns(net[i].biases) = 1
        /\ Len(net[i].biases.vec) = net[i].output_size

\* C17: a network accepted by Network::new and changed by any sequence of
\* mutate, average and crossover with a network of the same layer sizes keeps
\* matching consecutive layers, output_size x input_size weights and
\* output_size x 1 biases, and none of these operations fails; Network::new
\* aborts exactly when two consecutive layers do not match.
C17_ShapesPreserved ==
    /\ net_status = "built" =>
            /\ WellShaped(net_a)
            /\ WellShaped(net_b)
            /\ net_out # <<>> => WellShaped(net_out)
    /\ net_status = "aborted" <=> (net_ops = 0 /\ net_a # <<>> /\ ~LayersMatch(net_a))

\* A two-layer network that has been mutated, averaged and crossed over.
C17_Witness ==
    /\ net_status = "built"
    /\ net_ops = MaxNetOps
    /\ Len(net_a) = 2
    /\ net_out # <<>>
    /\ net_out # net_a
    /\ \A seed \in 1 .. MaxSeed, fn \in ActivationChoices :
            net_a # SeededNetwork(seed, << <<1, 2>>, <<2, 1>> >>, fn)

-----------------------------------------------------------------------------
(* Spec: the simulation worker (SimulationManager::update, in a loop) fed  *)
(* through its channel by the Ui (src/src/app/ui.rs)                       *)

\* Events waiting in the channel at most; worker updates followed.
MaxQueue == 2
MaxUpdates == 2

\* The largest count a seed can carry (read_u16), above MAX_PARTICLE_COUNT as
\* 65535 is above the source's maximum.
SeedCountMax == MAX_PARTICLE_COUNT + 1

\* Counts decoded from an imported seed: every class small, or every class at
\* the largest encodable value.
ImportedCounts == { [c \in Classes |-> 1], [c \in Classes |-> SeedCountMax] }

\* Values a slider is dragged to, within MIN_PARTICLE_COUNT ..= MAX_PARTICLE_COUNT.
SliderValues == {0, MAX_PARTICLE_COUNT}

UiMatrixChoices == { [ij \in Classes \X Classes |-> v] : v \in {0, MAX_POWER} }

\* The three simulation workers of the repository.
ManagerVariants == {"simulation_manager", "app_simulation", "app_simulation_manager"}

Event(type) == [type |-> type]

ParticleCountsUpdate(counts) ==
    [type |-> "ParticleCountsUpdate", particle_counts |-> counts]

PowerMatrixChange(matrix) == [type |-> "PowerMatrixChange", power_matrix |-> matrix]

ForceMatrixChange(matrix) == [type |-> "ForceMatrixChange", power_matrix |-> matrix]

\* StateUpdate with its two optional fields the worker reads; <<>> is None.
StateUpdate(matrix, counts) ==
    [type |-> "StateUpdate", power_matrix |-> matrix, particle_counts |-> counts]

\* The event each Ui uses for a quit, a matrix change and a counts change.
QuitEvent(v) == IF v = "app_simulation_manager" THEN Event("Exit") ELSE Event("Quit")

MatrixEvent(v, matrix) ==
    IF v = "simulation_manager" THEN PowerMatrixChange(matrix)
    ELSE IF v = "app_simulation" THEN ForceMatrixChange(matrix)
    ELSE StateUpdate(<<matrix>>, <<>>)

CountsEvent(v, counts) ==
    IF v = "app_simulation_manager" THEN StateUpdate(<<>>, <<counts>>)
    ELSE ParticleCountsUpdate(counts)

\* The worker's fields as a record, threaded through the event loop.
WorkerState ==
    [simulation_state |-> simulation_state,
     particle_counts |-> particle_counts,
     power_matrix |-> power_matrix,
     particle_positions |-> particle_positions,
     particle_prev_positions |-> particle_prev_positions,
     worker |-> worker,
     admissible |-> TRUE,
     reset_log |-> reset_log]

\* The SimulationReset arm of simulation_manager.rs: pause, zero the counts,
\* then reset_particles_positions over the (now zero) counts, zero the matrix.
ResetManager(st) ==
    LET zero == [c \in Classes |-> 0]
    IN [st EXCEPT
            !.simulation_state = "Paused",
            !.particle_counts = zero,
            !.particle_positions =
                reset_particles_positions(zero, st.particle_positions),
            !.particle_prev_positions =
                reset_particles_positions(zero, st.particle_prev_positions),
            !.power_matrix = [ij \in Classes \X Classes |-> 0]]

\* The SimulationReset arm of app/simulation.rs.
ResetAppSimulation(st) ==
    IF ~IndexInBounds(st.particle_counts)
        THEN [st EXCEPT !.simulation_state = "Paused", !.worker = "panicked"]
    ELSE [st EXCEPT
            !.simulation_state = "Paused",
            !.particle_positions =
                reset_particles_positions(st.particle_counts, st.particle_positions),
            !.particle_prev_positions =
                reset_particles_positions(st.particle_counts,
                                          st.particle_prev_positions)]

\* What the worker v does with SimulationReset; app/simulation_manager.rs has
\* no arm for it and the event falls into `_ => {}`.  The outcome is kept in
\* reset_log together with the counts held when the event arrived.
HandleReset(v, st) ==
    LET after == IF v = "simulation_manager" THEN ResetManager(st)
                 ELSE IF v = "app_simulation" THEN ResetAppSimulation(st)
                 ELSE st
    IN IF after.worker # "running" THEN after
       ELSE [after EXCEPT
            !.reset_log = <<[before |-> st.particle_counts,
                             simulation_state |-> after.simulation_state,
                             particle_positions |-> after.particle_positions,
                             particle_prev_positions |-> after.particle_prev_positions]>>]

\* The arm for a StateUpdate of app/simulation_manager.rs.
HandleStateUpdate(st, event) ==
    [st EXCEPT
        !.power_matrix =
            IF event.power_matrix # <<>> THEN event.power_matrix[1] ELSE @,
        !.particle_counts =
            IF event.particle_counts # <<>> THEN event.particle_counts[1] ELSE @]

\* One arm of the `match event` of SimulationManager::update in the worker v.
\* Indexing a position array at or beyond MAX_PARTICLE_COUNT fails Mat2D's
\* assertion and ends the worker thread.
HandleEvent(v, st, event, layout) ==
    IF event.type = (IF v = "app_simulation_manager" THEN "Exit" ELSE "Quit")
        THEN [st EXCEPT !.worker = "quit"]
    ELSE IF event.type = "SpawnParticles" THEN
        IF ~IndexInBounds(st.particle_counts) THEN [st EXCEPT !.worker = "panicked"]
        ELSE [st EXCEPT
                !.particle_positions =
                    spawn(st.particle_counts, st.particle_positions, layout),
                !.particle_prev_positions =
                    spawn(st.particle_counts, st.particle_prev_positions, layout),
                !.admissible = st.admissible /\ SpawnAdmissible(st.particle_counts, layout)]
    ELSE IF event.type = "SimulationStart" THEN [st EXCEPT !.simulation_state = "Running"]
    ELSE IF event.type = "SimulationPause" THEN [st EXCEPT !.simulation_state = "Paused"]
    ELSE IF event.type = "StateUpdate" /\ v = "app_simulation_manager" THEN
        HandleStateUpdate(st, event)
    ELSE IF \/ event.type = "PowerMatrixChange" /\ v = "simulation_manager"
            \/ event.type = "ForceMatrixChange" /\ v = "app_simulation" THEN
        [st EXCEPT !.power_matrix = event.power_matrix]
    ELSE IF event.type = "ParticleCountsUpdate" /\ v # "app_simulation_manager" THEN
        [st EXCEPT !.particle_counts = event.particle_counts]
    ELSE IF event.type = "SimulationReset" THEN HandleReset(v, st)
    ELSE st

\* The loop without the `return false` of the Quit arm: the events queued
\* behind Quit are handled as well.
RECURSIVE HandleEventsPastQuit(_, _, _, _, _)
HandleEventsPastQuit(v, st, events, i, layout) ==
    IF i > Len(events) \/ st.worker = "panicked" THEN st
    ELSE HandleEventsPastQuit(v, HandleEvent(v, st, events[i], layout), events,
                              i + 1, layout)

\* `for event in events`, left as soon as the worker quits or dies.
RECURSIVE HandleEvents(_, _, _, _, _)
HandleEvents(v, st, events, i, layout) ==
    IF i > Len(events) \/ st.worker # "running" THEN st
    ELSE HandleEvents(v, HandleEvent(v, st, events[i], layout), events, i + 1, layout)

\* The position of the first quit event of the drained events, 0 without one.
QuitIndex(v, events) ==
    LET quits == {i \in 1 .. Len(events) : events[i] = QuitEvent(v)}
    IN IF quits = {} THEN 0 ELSE CHOOSE i \in quits : \A j \in quits : i <= j

Init ==
    /\ simulation_state = "Paused"
    /\ particle_counts = [c \in Classes |-> DEFAULT_PARTICLE_COUNT]
    /\ power_matrix = [ij \in Classes \X Classes |-> 0]
    /\ particle_positions = [q \in ParticleIds |-> ZeroVec]
    /\ particle_prev_positions = [q \in ParticleIds |-> ZeroVec]
    /\ cell_map = organize_particles(<<>>, particle_counts, particle_positions)
    /\ receiver = <<>>
    /\ worker = "running"
    /\ ui_particle_counts = [c \in Classes |-> DEFAULT_PARTICLE_COUNT]
    /\ updates = 0
    /\ mgr_variant \in ManagerVariants
    /\ reset_log = <<>>
    /\ quit_log = <<>>
    /\ ForceIdle /\ TickIdle /\ BatchIdle /\ NetIdle /\ TrainIdle /\ ExtIdle

\* SimulationManager::update: the drained events, then one move_particles when
\* the simulation is running.
Update ==
    /\ worker = "running"
    /\ updates < MaxUpdates
    /\ \E layout \in LayoutChoices :
        LET st == HandleEvents(mgr_variant, WorkerState, receiver, 1, layout)
            moving == st.worker = "running" /\ st.simulation_state = "Running"
            dies == moving /\ ~IndexInBounds(st.particle_counts)
            after == move_particles(st.particle_counts, st.power_matrix,
                                    st.particle_positions,
                                    st.particle_prev_positions, cell_map)
        IN /\ st.admissible
           /\ simulation_state' = st.simulation_state
           /\ particle_counts' = st.particle_counts
           /\ power_matrix' = st.power_matrix
           /\ worker' = IF dies THEN "panicked" ELSE st.worker
           /\ reset_log' = st.reset_log
           /\ quit_log' = IF st.worker = "quit"
                              THEN <<[behind |-> Len(receiver)
                                                 - QuitIndex(mgr_variant, receiver)]>>
                              ELSE quit_log
           /\ IF moving /\ ~dies
                 THEN /\ cell_map' = after.cell_map
                      /\ particle_prev_positions' = after.particle_prev_positions
                      /\ particle_positions' = after.particle_positions
                 ELSE /\ cell_map' = cell_map
                      /\ particle_prev_positions' = st.particle_prev_positions
                      /\ particle_positions' = st.particle_positions
    /\ receiver' = <<>>
    /\ updates' = updates + 1
    /\ UNCHANGED <<ui_particle_counts, mgr_variant>>
    /\ UNCHANGED <<forceVars, tickVars, batchVars, netVars, trainVars, extVars>>

\* self.senders.send_sim(..) for each event of a Ui handler.
UiSends(events) ==
    /\ Len(receiver) + Len(events) <= MaxQueue
    /\ receiver' = receiver \o events
    /\ UNCHANGED <<simulation_state, worker, updates, mgr_variant, reset_log,
                   quit_log>>
    /\ UNCHANGED <<forceVars, simVars, tickVars, batchVars, netVars, trainVars, extVars>>

\* Ui::apply_seed on a seed "@<base64>": import, and return without sending.
UiImport ==
    /\ \E counts \in ImportedCounts : ui_particle_counts' = counts
    /\ ui_particle_counts' # ui_particle_counts
    /\ UiSends(<<>>)

\* The particle count slider of class i has changed: spawn, send_particle_counts.
UiSlider ==
    \E i \in Classes, v \in SliderValues :
        /\ ui_particle_counts[i] # v
        /\ ui_particle_counts' = [ui_particle_counts EXCEPT ![i] = v]
        /\ UiSends(<<Event("SpawnParticles"),
                     CountsEvent(mgr_variant, ui_particle_counts')>>)

\* A coefficient of the matrix has been edited: send_params.
UiMatrix ==
    /\ \E matrix \in UiMatrixChoices : UiSends(<<MatrixEvent(mgr_variant, matrix)>>)
    /\ UNCHANGED ui_particle_counts

\* play, pause, reset and the respawn and quit buttons.
UiButton ==
    /\ \E event \in {Event("SimulationStart"), Event("SimulationPause"),
                     Event("SimulationReset"), Event("SpawnParticles"),
                     QuitEvent(mgr_variant)} : UiSends(<<event>>)
    /\ UNCHANGED ui_particle_counts

Next == Update \/ UiImport \/ UiSlider \/ UiMatrix \/ UiButton

Spec == Init /\ [][Next]_vars

\* C10 as stated: in every state of the worker each class count is at most
\* MAX_PARTICLE_COUNT, and the worker never dies on an index beyond it.
C10_CountsWithinMaximum ==
    /\ \A c \in Classes : particle_counts[c] <= MAX_PARTICLE_COUNT
    /\ worker # "panicked"

\* C13: after a simulation worker has handled SimulationReset, whichever
\* worker it is, its state is Paused and the position and the previous position
\* of every particle that was active when the event arrived are zero.
C13_ResetPausesAndZeroes ==
    reset_log # <<>> =>
        LET log == reset_log[1]
        IN /\ log.simulation_state = "Paused"
           /\ \A q \in ActiveSet(log.before) :
                /\ log.particle_positions[q] = ZeroVec
                /\ log.particle_prev_positions[q] = ZeroVec

\* The events of a drained queue that update handles: all of them, or those
\* in front of the first Quit.
HandledPrefix(v, events) ==
    IF QuitIndex(v, events) = 0 THEN events
    ELSE SubSeq(events, 1, QuitIndex(v, events) - 1)

Respawns(events) ==
    \E i \in 1 .. Len(events) :
        events[i].type \in {"SpawnParticles", "SimulationReset"}

\* One call of update of src/src/simulation_manager.rs, as C29 states it.
C29_UpdateStep ==
    LET handled == HandledPrefix(mgr_variant, receiver)
        quits == QuitIndex(mgr_variant, receiver) > 0
    IN /\ \E layout \in LayoutChoices :
            LET st == HandleEvents(mgr_variant, WorkerState, handled, 1, layout)
                ticking == /\ ~quits
                           /\ st.worker = "running"
                           /\ st.simulation_state = "Running"
                after == move_particles(st.particle_counts, st.power_matrix,
                                        st.particle_positions,
                                        st.particle_prev_positions, cell_map)
            IN /\ st.admissible
               /\ simulation_state' = st.simulation_state
               /\ particle_counts' = st.particle_counts
               /\ power_matrix' = st.power_matrix
               /\ (quits /\ st.worker = "running") => worker' = "quit"
               /\ IF ticking /\ worker' = "running"
                     THEN /\ particle_positions' = after.particle_positions
                          /\ particle_prev_positions' = after.particle_prev_positions
                     ELSE /\ particle_positions' = st.particle_positions
                          /\ particle_prev_positions' = st.particle_prev_positions
       /\ (simulation_state' = "Paused" /\ ~Respawns(handled)) =>
                particle_positions' = particle_positions

\* C29: a call of SimulationManager::update of src/src/simulation_manager.rs
\* handles the drained events in FIFO order and then ticks at most once, and
\* only when the state after the events is Running; when the worker is Paused
\* after the events the positions change only if a SpawnParticles or a
\* SimulationReset was handled; and when Quit is dequeued the call returns
\* false without a tick and without handling the events queued behind it.
C29_EventsThenOneTick ==
    [][(/\ mgr_variant = "simulation_manager"
        /\ worker = "running"
        /\ updates' = updates + 1) => C29_UpdateStep]_vars

\* An update has dequeued Quit with an event queued behind it.
C29_Witness ==
    /\ mgr_variant = "simulation_manager"
    /\ worker = "quit"
    /\ quit_log # <<>>
    /\ quit_log[1].behind > 0


-----------------------------------------------------------------------------
(* SpecTrain: the training worker, TrainingManager of                      *)
(* src/src/app/training_manager.rs (Batch of ai/batch.rs) and              *)
(* TrainingBackend of src/src/app/training.rs (Batch of                    *)
(* ai/batch_training.rs), fed through its channel by the application.  A   *)
(* network is the pair <<generation that produced it, index>>.             *)

\* Largest batch of the training worker, largest gen_count of a
\* StartTraining, generations the application asks for in total, events
\* waiting in the channel at most.
MaxTrainBatch == 3
MaxGenCount == 2
MaxTrainGenerations == 2
MaxTrainScore == 2
MaxTrainQueue == 2

TrainVariants == {"training_manager", "training_backend"}

StartTraining(gen_count) == [type |-> "StartTraining", gen_count |-> gen_count]

\* The event that ends the worker: Event::Exit, SmarticlesEvent::Quit.
TrainQuit(v) == IF v = "training_manager" THEN "Exit" ELSE "Quit"

\* The Batch each worker owns, and the mutation rate it evolves with.
TrainBatchVariant(v) == IF v = "training_manager" THEN "batch" ELSE "batch_training"

TrainMutationRate(v) == IF v = "training_manager" THEN <<2, 1>> ELSE <<1, 1>>

\* An exit event is in the channel or among the drained events not yet
\* handled.
ExitPending ==
    \/ \E k \in 1 .. Len(t_receiver) : t_receiver[k].type = TrainQuit(t_variant)
    \/ \E k \in 1 .. Len(t_events) : t_events[k].type = TrainQuit(t_variant)

\* Messages of the worker to the application: StateUpdate with
\* training_generation / GenerationChange, StateUpdate with network_ranking /
\* NetworkRanking, TrainingStopped.
GenerationMessage(gen) == [kind |-> "generation", generation |-> gen]

RankingMessage == [kind |-> "ranking", generation |-> 0]

StoppedMessage == [kind |-> "stopped", generation |-> 0]

\* `self.senders.send(Recipient::App, Event::TrainingStopped)` exists in
\* training_manager.rs only.
StoppedMessages(v) == IF v = "training_manager" THEN <<StoppedMessage>> ELSE <<>>

\* The application's match arm for one message: app.rs stops on
\* TrainingStopped, app/ui.rs on NetworkRanking.
AppReceive(v, app, msg) ==
    IF msg.kind = "generation" THEN [app EXCEPT !.generation = msg.generation]
    ELSE IF msg.kind = "stopped" /\ v = "training_manager"
        THEN [app EXCEPT !.training_state = "Stopped"]
    ELSE IF msg.kind = "ranking" /\ v = "training_backend"
        THEN [app EXCEPT !.training_state = "Stopped"]
    ELSE app

RECURSIVE AppReceiveAll(_, _, _, _)
AppReceiveAll(v, app, msgs, k) ==
    IF k > Len(msgs) THEN app
    ELSE AppReceiveAll(v, AppReceive(v, app, msgs[k]), msgs, k + 1)

\* TrainingManager::start / TrainingBackend::new: the initial ranking, every
\* network with the score 0., is sent.
TrainInit ==
    /\ t_variant \in TrainVariants
    /\ \E l \in 2 .. MaxTrainBatch : t_networks = [k \in 1 .. l |-> <<0, k - 1>>]
    /\ t_generation = 0
    /\ t_receiver = <<>>
    /\ t_events = <<>>
    /\ t_pc = "idle"
    /\ t_gen_count = 0
    /\ t_n = 0
    /\ t_mode = "none"
    /\ t_evals = <<>>
    /\ t_ranking = <<>>
    /\ t_sent = [kind |-> "initial",
                 pairs |-> [k \in 1 .. Len(t_networks) |->
                                [score |-> 1, network |-> t_networks[k]]],
                 evaluated |-> <<>>]
    /\ t_budget = MaxTrainGenerations
    /\ t_late_start = FALSE
    /\ t_app_state = "Stopped"
    /\ t_app_target = 0
    /\ t_app_generation = t_generation
    /\ t_out = <<RankingMessage>>
    /\ t_req = <<>>
    /\ t_resp = <<>>
    /\ ForceIdle /\ SimIdle /\ TickIdle /\ MgrIdle /\ BatchIdle /\ NetIdle /\ ExtIdle

\* The application sends StartTraining(gen_count), EvaluateNetworks or the
\* exit event.
TrainUiSend ==
    /\ Len(t_receiver) < MaxTrainQueue
    /\ ~ExitPending
    /\ t_pc \notin {"stopped", "panicked"}
    /\ \/ \E g \in 1 .. MaxGenCount :
            /\ g <= t_budget
            /\ t_app_state = "Stopped"
            /\ t_receiver' = Append(t_receiver, StartTraining(g))
            /\ t_budget' = t_budget - g
            /\ t_app_state' = "Training"
            /\ t_app_target' = t_app_generation + g
       \/ /\ 1 <= t_budget
          /\ t_app_state = "Stopped"
          /\ t_receiver' = Append(t_receiver, Event("EvaluateNetworks"))
          /\ t_budget' = t_budget - 1
          /\ t_app_state' = IF t_variant = "training_manager" THEN "Evaluating"
                            ELSE t_app_state
          /\ t_app_target' = t_app_target
       \/ /\ t_receiver' = Append(t_receiver, Event(TrainQuit(t_variant)))
          /\ t_budget' = t_budget
          /\ UNCHANGED <<t_app_state, t_app_target>>
    /\ UNCHANGED <<t_variant, t_events, t_pc, t_networks, t_generation, t_gen_count,
                   t_n, t_mode, t_evals, t_ranking, t_sent, t_late_start,
                   t_app_generation, t_out, t_req, t_resp>>
    /\ UNCHANGED <<forceVars, simVars, tickVars, mgrVars, batchVars, netVars, extVars>>

\* update: `let events = self.receiver.try_iter().collect::<Vec<_>>()`
TrainDrain ==
    /\ t_pc = "idle"
    /\ t_events' = t_receiver
    /\ t_receiver' = <<>>
    /\ t_pc' = "handling"
    /\ UNCHANGED <<t_variant, t_networks, t_generation, t_gen_count, t_n, t_mode,
                   t_evals, t_ranking, t_sent, t_budget, t_late_start, t_app_state,
                   t_app_target, t_app_generation, t_out, t_req, t_resp>>
    /\ UNCHANGED <<forceVars, simVars, tickVars, mgrVars, batchVars, netVars, extVars>>

\* update: one turn of `for ev in events { match ev {..} }`, up to the call
\* of train or the start of the evaluation; `true` is returned after the last
\* event, `false` at the exit event.
TrainHandle ==
    /\ t_pc = "handling"
    /\ IF t_events = <<>>
          THEN /\ t_pc' = "idle"
               /\ UNCHANGED <<t_events, t_gen_count, t_n, t_mode, t_evals, t_req, t_resp>>
       ELSE IF Head(t_events).type = TrainQuit(t_variant)
          THEN /\ t_pc' = "stopped"
               /\ t_events' = <<>>
               /\ UNCHANGED <<t_gen_count, t_n, t_mode, t_evals, t_req, t_resp>>
       ELSE IF Head(t_events).type = "StartTraining"
          THEN /\ t_pc' = "loop"
               /\ t_mode' = "train"
               /\ t_gen_count' = Head(t_events).gen_count
               /\ t_n' = 0
               /\ t_events' = Tail(t_events)
               /\ t_req' = [kind |-> "train", n |-> Head(t_events).gen_count,
                            start |-> t_generation]
               /\ t_resp' = <<>>
               /\ UNCHANGED t_evals
       ELSE /\ t_pc' = "evaluating"
            /\ t_mode' = "evaluate"
            /\ t_evals' = [k \in 1 .. Len(t_networks) |-> [state |-> "pending"]]
            /\ t_events' = Tail(t_events)
            /\ t_req' = [kind |-> "evaluate", n |-> 0, start |-> t_generation]
            /\ t_resp' = <<>>
            /\ UNCHANGED <<t_gen_count, t_n>>
    /\ UNCHANGED <<t_variant, t_receiver, t_networks, t_generation, t_ranking,
                   t_sent, t_budget, t_late_start, t_app_state, t_app_target,
                   t_app_generation, t_out>>
    /\ UNCHANGED <<forceVars, simVars, tickVars, mgrVars, batchVars, netVars, extVars>>

\* train: `for n in 0..gen_count`, the head of the loop; the parallel
\* evaluation of the generation starts, or train returns.
TrainLoop ==
    /\ t_pc = "loop"
    /\ IF t_n < t_gen_count
          THEN /\ t_pc' = "evaluating"
               /\ t_evals' = [k \in 1 .. Len(t_networks) |-> [state |-> "pending"]]
               /\ t_late_start' = (t_late_start \/ ExitPending)
               /\ UNCHANGED <<t_out, t_resp>>
          ELSE /\ t_pc' = "handling"
               /\ t_out' = t_out \o StoppedMessages(t_variant)
               /\ t_resp' = t_resp \o StoppedMessages(t_variant)
               /\ UNCHANGED <<t_evals, t_late_start>>
    /\ UNCHANGED <<t_variant, t_receiver, t_events, t_networks, t_generation,
                   t_gen_count, t_n, t_mode, t_ranking, t_sent, t_budget,
                   t_app_state, t_app_target, t_app_generation, t_req>>
    /\ UNCHANGED <<forceVars, simVars, tickVars, mgrVars, batchVars, netVars, extVars>>

\* A task of the parallel iterator starts: evaluation_fn receives its own
\* clone of network k.
EvalStart(k) ==
    /\ t_pc = "evaluating"
    /\ k \in 1 .. Len(t_evals)
    /\ t_evals[k].state = "pending"
    /\ t_evals' = [t_evals EXCEPT ![k] = [state |-> "running", copy |-> t_networks[k]]]
    /\ UNCHANGED <<t_variant, t_receiver, t_events, t_pc, t_networks, t_generation,
                   t_gen_count, t_n, t_mode, t_ranking, t_sent, t_budget, t_late_start,
                   t_app_state, t_app_target, t_app_generation, t_out, t_req, t_resp>>
    /\ UNCHANGED <<forceVars, simVars, tickVars, mgrVars, batchVars, netVars, extVars>>

\* The task returns its EvaluationData, here the score compute_score gives it.
EvalFinish(k) ==
    /\ t_pc = "evaluating"
    /\ k \in 1 .. Len(t_evals)
    /\ t_evals[k].state = "running"
    /\ \E score \in 1 .. MaxTrainScore :
        t_evals' = [t_evals EXCEPT ![k] = [state |-> "done", copy |-> @.copy,
                                           score |-> score]]
    /\ UNCHANGED <<t_variant, t_receiver, t_events, t_pc, t_networks, t_generation,
                   t_gen_count, t_n, t_mode, t_ranking, t_sent, t_budget, t_late_start,
                   t_app_state, t_app_target, t_app_generation, t_out, t_req, t_resp>>
    /\ UNCHANGED <<forceVars, simVars, tickVars, mgrVars, batchVars, netVars, extVars>>

\* Variant of AllEvaluated that does not wait for the tasks.
AllEvaluatedEarly(evals) == TRUE

\* `.collect::<Vec<_>>()` returns once every task has returned.
AllEvaluated(evals) == \A k \in 1 .. Len(evals) : evals[k].state = "done"

EvalScore(e) == IF e.state = "done" THEN e.score ELSE 0

\* The (score, network) pairs sent to the application: the ranking's scores
\* with `self.batch.networks[i]` as the batch is at the time of the send.
RankingPairs(rk, nets) ==
    [k \in 1 .. Len(rk) |-> [score |-> rk[k][2], network |-> nets[rk[k][1] + 1]]]

\* What the evaluation measured: each evaluated network with its score.
Evaluated(evals) ==
    [k \in 1 .. Len(evals) |->
        [network |-> IF evals[k].state = "pending" THEN <<>> ELSE evals[k].copy,
         score |-> EvalScore(evals[k])]]

\* After the join: Batch::rank; EvaluateNetworks then sends the ranking, train
\* goes on to evolve.
TrainJoin ==
    /\ t_pc = "evaluating"
    /\ AllEvaluated(t_evals)
    /\ t_ranking' = rank([k \in 1 .. Len(t_evals) |-> EvalScore(t_evals[k])])
    /\ IF t_mode = "evaluate"
          THEN /\ t_sent' = [kind |-> "evaluation",
                             pairs |-> RankingPairs(t_ranking', t_networks),
                             evaluated |-> Evaluated(t_evals)]
               /\ t_out' = t_out \o <<RankingMessage>> \o StoppedMessages(t_variant)
               /\ t_resp' = t_resp \o <<RankingMessage>> \o StoppedMessages(t_variant)
               /\ t_pc' = "handling"
          ELSE /\ t_sent' = t_sent
               /\ t_pc' = "ranked"
               /\ UNCHANGED <<t_out, t_resp>>
    /\ UNCHANGED <<t_variant, t_receiver, t_events, t_networks, t_generation,
                   t_gen_count, t_n, t_mode, t_evals, t_budget, t_late_start,
                   t_app_state, t_app_target, t_app_generation, t_req>>
    /\ UNCHANGED <<forceVars, simVars, tickVars, mgrVars, batchVars, netVars, extVars>>

\* The ways Batch::evolve can end for the ranking rk: it returns when every
\* child's mutate calls are accepted, it panics on invalid weights or on a
\* mutation rate above 1.
TrainEvolveOutcomes(v, rk) ==
    LET l == Len(rk)
        w == evolve_weights(TrainBatchVariant(v), l, rk)
        accepted(s1, s2) ==
            IF v = "training_manager"
                THEN BatchChildAccepted(TrainMutationRate(v), l, s1, s2)
                ELSE TrainingChildAccepted(TrainMutationRate(v), l,
                                           rk[s1 + 1][1], rk[s2 + 1][1])
    IN IF WeightedIndex_new(w) # "Ok" THEN {"aborted"}
       ELSE {"done" : s \in {p \in Support(w) \X Support(w) : accepted(p[1], p[2])}}
            \cup {"aborted" : s \in {p \in Support(w) \X Support(w) :
                                        ~accepted(p[1], p[2])}}

\* train: `self.batch.evolve(..)` and the rest of the loop body: the new
\* generation replaces the batch, and after the last generation the ranking is
\* sent.
TrainEvolve ==
    /\ t_pc = "ranked"
    /\ \E outcome \in TrainEvolveOutcomes(t_variant, t_ranking) :
        IF outcome = "aborted"
            THEN /\ t_pc' = "panicked"
                 /\ UNCHANGED <<t_networks, t_generation, t_n, t_sent, t_evals,
                                t_out, t_resp>>
            ELSE /\ t_networks' = [k \in 1 .. Len(t_networks) |->
                                        <<t_generation + 1, k - 1>>]
                 /\ t_generation' = t_generation + 1
                 /\ t_n' = t_n + 1
                 /\ t_evals' = <<>>
                 /\ t_sent' = IF t_n + 1 = t_gen_count
                                 THEN [kind |-> "training",
                                       pairs |-> RankingPairs(t_ranking, t_networks'),
                                       evaluated |-> Evaluated(t_evals)]
                                 ELSE t_sent
                 /\ LET msgs == <<GenerationMessage(t_generation + 1)>>
                                 \o (IF t_n + 1 = t_gen_count THEN <<RankingMessage>>
                                     ELSE <<>>)
                    IN /\ t_out' = t_out \o msgs
                       /\ t_resp' = t_resp \o msgs
                 /\ t_pc' = "loop"
    /\ UNCHANGED <<t_variant, t_receiver, t_events, t_gen_count, t_mode, t_ranking,
                   t_budget, t_late_start, t_app_state, t_app_target,
                   t_app_generation, t_req>>
    /\ UNCHANGED <<forceVars, simVars, tickVars, mgrVars, batchVars, netVars, extVars>>

\* SmarticlesApp::update: `for event in self.receiver.try_iter()`.
TrainAppReceive ==
    /\ t_out # <<>>
    /\ LET app == AppReceiveAll(t_variant,
                                [training_state |-> t_app_state,
                                 generation |-> t_app_generation], t_out, 1)
       IN /\ t_app_state' = app.training_state
          /\ t_app_generation' = app.generation
    /\ t_out' = <<>>
    /\ UNCHANGED <<t_variant, t_receiver, t_events, t_pc, t_networks, t_generation,
                   t_gen_count, t_n, t_mode, t_evals, t_ranking, t_sent, t_budget,
                   t_late_start, t_app_target, t_req, t_resp>>
    /\ UNCHANGED <<forceVars, simVars, tickVars, mgrVars, batchVars, netVars, extVars>>

TrainNext ==
    \/ TrainAppReceive
    \/ TrainUiSend
    \/ TrainDrain
    \/ TrainHandle
    \/ TrainLoop
    \/ \E k \in 1 .. MaxTrainBatch : EvalStart(k)
    \/ \E k \in 1 .. MaxTrainBatch : EvalFinish(k)
    \/ TrainJoin
    \/ TrainEvolve

SpecTrain == TrainInit /\ [][TrainNext]_vars

\* C18: evolve runs only when every evaluation of the generation has
\* returned; evaluations are in flight only during the evaluation phase, each
\* on its own copy, and the network of the batch a running evaluation was
\* copied from is still the same network.
C18_EvaluationBeforeEvolve ==
    /\ t_pc = "ranked" => AllEvaluated(t_evals) /\ t_evals # <<>>
    /\ \A k \in 1 .. Len(t_evals) :
            t_evals[k].state = "running" =>
                /\ t_pc = "evaluating"
                /\ t_evals[k].copy = t_networks[k]
    /\ t_pc \in {"evaluating", "ranked"} =>
            \A k \in 1 .. Len(t_networks) : t_networks[k][1] = t_generation

\* The second generation of a training is being evaluated, one task running
\* and one finished.
C18_Witness ==
    /\ t_pc = "evaluating"
    /\ t_mode = "train"
    /\ t_generation >= 1
    /\ \E k, j \in 1 .. Len(t_evals) :
            t_evals[k].state = "running" /\ t_evals[j].state = "done"

\* C24 as stated: during TrainingManager::train every rate evolve passes to
\* Network::mutate, for every pair of ranking positions it can sample, is in
\* [0, 1], so that no generation aborts on the mutation-rate assertion.
C24_MutateRatesInRange ==
    (t_variant = "training_manager" /\ t_pc = "ranked") =>
        LET l == Len(t_ranking)
            w == evolve_weights(TrainBatchVariant(t_variant), l, t_ranking)
        IN WeightedIndex_new(w) = "Ok" =>
            \A s1, s2 \in Support(w) :
                BatchChildAccepted(TrainMutationRate(t_variant), l, s1, s2)

\* The messages the claim expects for a request: n generation updates with
\* the numbers start + 1 .. start + n, one ranking, TrainingStopped; for
\* EvaluateNetworks the ranking and TrainingStopped.
ExpectedResponse(v, req) ==
    [k \in 1 .. req.n |-> GenerationMessage(req.start + k)]
        \o <<RankingMessage>> \o StoppedMessages(v)

IsPrefix(a, b) == Len(a) <= Len(b) /\ SubSeq(b, 1, Len(a)) = a

\* Requests sent and not yet answered completely.
Outstanding ==
    Cardinality({k \in 1 .. Len(t_receiver) :
                    t_receiver[k].type \in {"StartTraining", "EvaluateNetworks"}})
    + Cardinality({k \in 1 .. Len(t_events) :
                    t_events[k].type \in {"StartTraining", "EvaluateNetworks"}})
    + (IF t_pc \in {"loop", "evaluating", "ranked"} THEN 1 ELSE 0)

\* What is sent for the request in progress is the beginning of what the
\* claim expects, in order.
ResponseInOrder == t_req # <<>> => IsPrefix(t_resp, ExpectedResponse(t_variant, t_req))

\* Once the worker no longer works on the request, everything was sent.
ResponseComplete ==
    (t_req # <<>> /\ t_pc \notin {"loop", "evaluating", "ranked"}) =>
        t_resp = ExpectedResponse(t_variant, t_req)

\* The generation the application displays when it is in the state Stopped is
\* the target it computed at the click.
TargetReached == t_app_state = "Stopped" => t_app_generation = t_app_target

\* C28 as stated, for training_manager.rs and app.rs: each StartTraining(n) is
\* answered by exactly n generation updates with consecutive numbers, then one
\* ranking, then TrainingStopped; the application then displays its target
\* generation; at most one request is outstanding.
C28_TrainingProtocol ==
    t_variant = "training_manager" =>
        /\ ResponseInOrder
        /\ ResponseComplete
        /\ TargetReached
        /\ Outstanding <= 1

\* C19 as stated: no generation is started while the exit event is pending.
C19_NoGenerationAfterExit == ~t_late_start

\* Descending score order of the pairs of a ranking.
PairsDescending(pairs) ==
    \A k, j \in 1 .. Len(pairs) :
        k < j => ScoreValue(pairs[k].score) >= ScoreValue(pairs[j].score)

\* C20 as stated: every ranking sent after a training or an evaluation pairs
\* each network with the score this network obtained in the evaluation that
\* produced the ranking, in descending score order.
C20_ScoresBelongToNetworks ==
    t_sent.kind \in {"training", "evaluation"} =>
        /\ PairsDescending(t_sent.pairs)
        /\ \A k \in 1 .. Len(t_sent.pairs) :
                \E j \in 1 .. Len(t_sent.evaluated) :
                    /\ t_sent.evaluated[j].network = t_sent.pairs[k].network
                    /\ t_sent.evaluated[j].score = t_sent.pairs[k].score


-----------------------------------------------------------------------------
(* SpecMat: Mat2D built by from_rows, transposed by transpose and          *)
(* transpose_in_place, and read through Index (src/src/mat.rs).            *)

\* Largest number of rows and of columns, number of in-place transpositions
\* followed.
MaxMatDim == 3
MaxFlips == 3

\* Mat2D::transpose: `out.transpose ^= true` on a copy.
Mat_transpose(m) == [m EXCEPT !.transpose = ~m.transpose]

\* Mat2D::transpose_in_place: `self.transpose ^= true`.
Mat_transpose_in_place(m) == [m EXCEPT !.transpose = (m.transpose # TRUE)]

\* Variant of Mat_index that never exchanges the two indices.
Mat_index_no_swap(m, index) ==
    IF index[1] < m.num_rows /\ index[2] < m.num_columns
        THEN <<m.vec[index[2] + index[1] * m.num_columns + 1]>>
        ELSE <<>>

\* Index<(usize, usize)> for Mat2D: <<value>>, or <<>> when one of the two
\* assertions fails.
Mat_index(m, index) ==
    LET ij == IF ~m.transpose THEN index ELSE <<index[2], index[1]>>
    IN IF ij[1] < m.num_rows /\ ij[2] < m.num_columns
           THEN <<m.vec[ij[2] + ij[1] * m.num_columns + 1]>>
           ELSE <<>>

\* The matrix of the test with other shapes: from_rows(vec![1, 2, ..], r, c).
MatInit ==
    /\ \E r \in 1 .. MaxMatDim, c \in 1 .. MaxMatDim :
        mat_m0 = Mat_from_rows([k \in 1 .. r * c |-> k], r, c)
    /\ mat_m1 = mat_m0
    /\ mat_m2 = <<>>
    /\ mat_src = <<>>
    /\ mat_flips = 0
    /\ mat_m2_flips = 0
    /\ mat_read = <<>>
    /\ CoreIdle /\ InferIdle /\ ApplyIdle /\ EvalIdle

\* `let m2 = m1.transpose();`
MatTranspose ==
    /\ mat_m2' = Mat_transpose(mat_m1)
    /\ mat_src' = mat_m1
    /\ mat_m2_flips' = mat_flips + 1
    /\ UNCHANGED <<mat_m0, mat_m1, mat_flips, mat_read>>
    /\ UNCHANGED <<coreVars, inferVars, applyVars, evalVars>>

\* `m1.transpose_in_place();`
MatTransposeInPlace ==
    /\ mat_flips < MaxFlips
    /\ mat_m1' = Mat_transpose_in_place(mat_m1)
    /\ mat_flips' = mat_flips + 1
    /\ UNCHANGED <<mat_m0, mat_m2, mat_src, mat_m2_flips, mat_read>>
    /\ UNCHANGED <<coreVars, inferVars, applyVars, evalVars>>

\* `m1[(i, j)]` or `m2[(i, j)]`, indices past the shape included.
MatRead ==
    /\ \E target \in {"m1", "m2"}, i \in 0 .. MaxMatDim, j \in 0 .. MaxMatDim :
        LET m == IF target = "m1" THEN mat_m1 ELSE mat_m2
        IN /\ m # <<>>
           /\ mat_read' = [target |-> target, index |-> <<i, j>>,
                           flips |-> IF target = "m1" THEN mat_flips ELSE mat_m2_flips,
                           value |-> Mat_index(m, <<i, j>>)]
    /\ UNCHANGED <<mat_m0, mat_m1, mat_m2, mat_src, mat_flips, mat_m2_flips>>
    /\ UNCHANGED <<coreVars, inferVars, applyVars, evalVars>>

MatNext == MatTranspose \/ MatTransposeInPlace \/ MatRead

SpecMat == MatInit /\ [][MatNext]_vars

\* What a read at index must return when the matrix read is m0, built r x c
\* from rows, transposed flips times.
ExpectedRead(m0, flips, index) ==
    LET r == m0.num_rows
        c == m0.num_columns
        ij == IF flips % 2 = 1 THEN <<index[2], index[1]>> ELSE index
    IN IF ij[1] < r /\ ij[2] < c THEN <<m0.vec[ij[1] * c + ij[2] + 1]>> ELSE <<>>

\* C23: the transpose of an r x c matrix has c rows and r columns and its
\* entry (j, i) is the entry (i, j) of the matrix; transpose_in_place gives the
\* same matrix as transpose; two transpositions give back the matrix; a read
\* outside the transposed shape is rejected.
C23_Transpose ==
    /\ mat_m2 # <<>> =>
        /\ Mat_num_rows(mat_m2) = Mat_num_columns(mat_src)
        /\ Mat_num_columns(mat_m2) = Mat_num_rows(mat_src)
        /\ \A i \in 0 .. Mat_num_rows(mat_src) - 1,
              j \in 0 .. Mat_num_columns(mat_src) - 1 :
                Mat_index(mat_m2, <<j, i>>) = Mat_index(mat_src, <<i, j>>)
        /\ Mat_transpose(mat_m2) = mat_src
        /\ Mat_transpose_in_place(mat_src) = mat_m2
    /\ mat_m1 # <<>> =>
        /\ mat_flips % 2 = 0 => mat_m1 = mat_m0
        /\ mat_flips % 2 = 1 =>
                /\ Mat_num_rows(mat_m1) = mat_m0.num_columns
                /\ Mat_num_columns(mat_m1) = mat_m0.num_rows
    /\ mat_read # <<>> =>
        LET rows == IF mat_read.flips % 2 = 1 THEN mat_m0.num_columns
                    ELSE mat_m0.num_rows
            columns == IF mat_read.flips % 2 = 1 THEN mat_m0.num_rows
                       ELSE mat_m0.num_columns
        IN /\ mat_read.value = ExpectedRead(mat_m0, mat_read.flips, mat_read.index)
           /\ (mat_read.index[1] >= rows \/ mat_read.index[2] >= columns)
                <=> mat_read.value = <<>>

\* A 2 x 3 matrix transposed: the entry (2, 1) of the transpose was read and
\* is the entry (1, 2) of the matrix, and a read at (1, 2) was rejected or is
\* still to come.
C23_Witness ==
    /\ mat_m0 # <<>>
    /\ mat_m0.num_rows = 2 /\ mat_m0.num_columns = 3
    /\ mat_m2 # <<>> /\ mat_m2.transpose
    /\ mat_read # <<>>
    /\ mat_read.target = "m2"
    /\ mat_read.flips = 1
    /\ mat_read.index = <<2, 1>>
    /\ mat_read.value = <<6>>

-----------------------------------------------------------------------------
(* SpecInfer: the network-inference state of the live simulation workers   *)
(* (src/src/app/simulation_manager.rs and src/src/app/simulation.rs) and   *)
(* the Ui controls that feed it.  The simulation itself is reduced to the  *)
(* count of move_particles calls; a power matrix, a particle-count array   *)
(* and a network are opaque tags.                                          *)

INFERENCE_TICK_INTERVAL == 20

\* Ui messages sent, update calls that tick, channel capacity followed.
MaxInferSends == 4
MaxInferTicks == 44
MaxInferQueue == 2

InferVariants == {"app_simulation_manager", "app_simulation"}

\* Tags: the matrix zeroed by setup_simulation_for_networks, the Ui's matrix,
\* a matrix written from a network output.
ZeroedMatrix == 0
UiPowerMatrix == 1
InferredMatrix == 2

\* An event of the channel; a field of a StateUpdate is <<>> for None and
\* <<value>> for Some(value).
InferEvent(type, matrix, counts, network, angle) ==
    [type |-> type, power_matrix |-> matrix, particle_counts |-> counts,
     inference_network |-> network, target_angle |-> angle]

PlainEvent(type) == InferEvent(type, <<>>, <<>>, <<>>, <<>>)

InferQuit(v) == IF v = "app_simulation_manager" THEN "Exit" ELSE "Quit"

\* What one Ui control sends, as the sequence of its events.
\* "start network inference": the selected network, then NetworkStart.
StartInferenceEvents(v) ==
    IF v = "app_simulation_manager"
        THEN <<InferEvent("StateUpdate", <<>>, <<>>, <<1>>, <<>>), PlainEvent("NetworkStart")>>
        ELSE <<InferEvent("InferenceNetworkChange", <<>>, <<>>, <<1>>, <<>>),
               PlainEvent("NetworkStart")>>

\* The direction knob (app.rs) / the target picked in the view (app/ui.rs).
TargetEvents(v, angle) ==
    IF v = "app_simulation_manager"
        THEN <<InferEvent("StateUpdate", <<>>, <<>>, <<>>, <<angle>>)>>
        ELSE <<InferEvent("TargetPositionChange", <<>>, <<>>, <<>>, <<angle>>)>>

\* The power matrix and particle counts sent together (app.rs).
MatrixAndCountsEvents == <<InferEvent("StateUpdate", <<UiPowerMatrix>>, <<1>>, <<>>, <<>>)>>

InferState ==
    [simulation_state |-> i_simulation_state,
     network |-> i_network,
     network_state |-> i_network_state,
     steps |-> i_steps,
     target_angle |-> i_target_angle,
     power_matrix |-> i_power_matrix,
     particle_counts |-> i_particle_counts,
     worker |-> i_worker,
     log |-> i_log]

\* The four fields a StateUpdate can carry to the simulation worker.
UpdatedFields(st) ==
    [power_matrix |-> st.power_matrix, particle_counts |-> st.particle_counts,
     inference_network |-> st.network, target_angle |-> st.target_angle]

\* The StateUpdate arm of app/simulation_manager.rs:
\* `self.network = inference_network;` is not under an `if let Some`.
InferStateUpdate(st, e) ==
    LET after ==
            [st EXCEPT
                !.power_matrix = IF e.power_matrix # <<>> THEN e.power_matrix[1] ELSE @,
                !.particle_counts =
                    IF e.particle_counts # <<>> THEN e.particle_counts[1] ELSE @,
                !.network = e.inference_network,
                !.target_angle = IF e.target_angle # <<>> THEN e.target_angle[1] ELSE @]
    IN [after EXCEPT !.log = [event |-> e, before |-> UpdatedFields(st),
                              after |-> UpdatedFields(after)]]

\* One arm of the `match event` of update.
InferHandleEvent(v, st, e) ==
    IF e.type = InferQuit(v) THEN [st EXCEPT !.worker = "quit"]
    ELSE IF e.type = "SimulationStart" THEN [st EXCEPT !.simulation_state = "Running"]
    ELSE IF e.type = "SimulationPause" THEN [st EXCEPT !.simulation_state = "Paused"]
    ELSE IF e.type = "NetworkStop" THEN [st EXCEPT !.network_state = "Stopped"]
    ELSE IF e.type = "NetworkStart" THEN
        IF v = "app_simulation_manager"
            THEN [st EXCEPT !.particle_counts = 8, !.power_matrix = ZeroedMatrix,
                            !.network_state = "Running"]
            ELSE [st EXCEPT !.particle_counts = 12, !.network_state = "Running"]
    ELSE IF e.type = "StateUpdate" /\ v = "app_simulation_manager" THEN
        InferStateUpdate(st, e)
    ELSE IF e.type = "InferenceNetworkChange" /\ v = "app_simulation" THEN
        [st EXCEPT !.network = e.inference_network]
    ELSE IF e.type = "TargetPositionChange" /\ v = "app_simulation" THEN
        [st EXCEPT !.target_angle = e.target_angle[1]]
    ELSE st

\* `for event in events { match event { .. } }`: Exit / Quit returns at once.
RECURSIVE InferHandleEvents(_, _, _, _)
InferHandleEvents(v, st, events, k) ==
    IF k > Len(events) \/ st.worker = "quit" THEN st
    ELSE InferHandleEvents(v, InferHandleEvent(v, st, events[k]), events, k + 1)

\* Whether the tick runs the network: `self.steps % INFERENCE_TICK_INTERVAL == 0`
\* in app/simulation_manager.rs, `self.steps == INFERENCE_TICK_INTERVAL` in
\* app/simulation.rs.
InferenceDue(v, steps) ==
    IF v = "app_simulation_manager" THEN steps % INFERENCE_TICK_INTERVAL = 0
    ELSE steps = INFERENCE_TICK_INTERVAL

\* steps after a tick with the network set and running: app/simulation_manager.rs
\* increments it in the else branch only and never on an inference,
\* app/simulation.rs sets it to 0 on an inference.
StepsAfter(v, steps) ==
    IF InferenceDue(v, steps)
        THEN IF v = "app_simulation_manager" THEN steps ELSE 0
        ELSE steps + 1

InferInit ==
    /\ i_variant \in InferVariants
    /\ i_simulation_state = "Paused"
    /\ i_network = <<>>
    /\ i_network_state = "Stopped"
    /\ i_steps = 0
    /\ i_target_angle = 0
    /\ i_power_matrix = UiPowerMatrix
    /\ i_particle_counts = 1
    /\ i_receiver = <<>>
    /\ i_worker = "running"
    /\ i_sends = 0
    /\ i_ticks = 0
    /\ i_since = -1
    /\ i_gap = 0
    /\ i_log = <<>>
    /\ i_ui_network_state = "Stopped"
    /\ CoreIdle /\ MatIdle /\ ApplyIdle /\ EvalIdle

\* One Ui control is used and its events are sent.
InferUiSend ==
    /\ i_worker = "running"
    /\ i_sends < MaxInferSends
    /\ \E control \in {"start inference", "stop inference", "target", "matrix",
                        "start", "pause", "exit"} :
        LET events ==
                IF control = "start inference" THEN StartInferenceEvents(i_variant)
                ELSE IF control = "stop inference" THEN <<PlainEvent("NetworkStop")>>
                ELSE IF control = "target" THEN TargetEvents(i_variant, 1)
                ELSE IF control = "matrix" THEN MatrixAndCountsEvents
                ELSE IF control = "start" THEN <<PlainEvent("SimulationStart")>>
                ELSE IF control = "pause" THEN <<PlainEvent("SimulationPause")>>
                ELSE <<PlainEvent(InferQuit(i_variant))>>
        IN /\ control = "start inference" => i_ui_network_state = "Stopped"
           /\ control = "stop inference" => i_ui_network_state = "Running"
           /\ control = "matrix" => i_variant = "app_simulation_manager"
           /\ Len(i_receiver) + Len(events) <= MaxInferQueue
           /\ i_receiver' = i_receiver \o events
           /\ i_ui_network_state' =
                IF control = "start inference" THEN "Running"
                ELSE IF control = "stop inference" THEN "Stopped"
                ELSE i_ui_network_state
    /\ i_sends' = i_sends + 1
    /\ UNCHANGED <<i_variant, i_simulation_state, i_network, i_network_state, i_steps,
                   i_target_angle, i_power_matrix, i_particle_counts, i_worker,
                   i_ticks, i_since, i_gap, i_log>>
    /\ UNCHANGED <<coreVars, matVars, applyVars, evalVars>>

\* One call of update: the pending events, then a tick when Running, and in
\* the tick the inference step.  i_since counts the ticks since the last
\* inference while the network stays set and running (-1 before the first
\* one); i_gap is the number of ticks from the previous inference to the last.
InferUpdate ==
    /\ i_worker = "running"
    /\ i_ticks < MaxInferTicks
    /\ LET st == InferHandleEvents(i_variant, InferState, i_receiver, 1)
           ticking == st.worker = "running" /\ st.simulation_state = "Running"
           live == ticking /\ st.network_state = "Running" /\ st.network # <<>>
           inferring == live /\ InferenceDue(i_variant, st.steps)
       IN /\ i_simulation_state' = st.simulation_state
          /\ i_network' = st.network
          /\ i_network_state' = st.network_state
          /\ i_target_angle' = st.target_angle
          /\ i_particle_counts' = st.particle_counts
          /\ i_worker' = st.worker
          /\ i_log' = st.log
          /\ i_ticks' = IF ticking THEN i_ticks + 1 ELSE i_ticks
          /\ i_steps' = IF live THEN StepsAfter(i_variant, st.steps) ELSE st.steps
          /\ i_power_matrix' = IF inferring THEN InferredMatrix ELSE st.power_matrix
          /\ i_since' = IF ~ticking THEN i_since
                        ELSE IF ~live THEN -1
                        ELSE IF inferring THEN 0
                        ELSE IF i_since >= 0 THEN i_since + 1 ELSE -1
          /\ i_gap' = IF inferring /\ i_since >= 0 THEN i_since + 1 ELSE i_gap
    /\ i_receiver' = <<>>
    /\ UNCHANGED <<i_variant, i_sends, i_ui_network_state>>
    /\ UNCHANGED <<coreVars, matVars, applyVars, evalVars>>

InferNext == InferUiSend \/ InferUpdate

SpecInfer == InferInit /\ [][InferNext]_vars

\* C25 as stated: a StateUpdate changes only the fields it carries a value
\* for; the power matrix, the particle counts, the target angle and the
\* inference network keep their value when the field of the update is None.
C25_OnlyCarriedFieldsChange ==
    i_log # <<>> =>
        /\ i_log.event.power_matrix = <<>> =>
                i_log.after.power_matrix = i_log.before.power_matrix
        /\ i_log.event.particle_counts = <<>> =>
                i_log.after.particle_counts = i_log.before.particle_counts
        /\ i_log.event.target_angle = <<>> =>
                i_log.after.target_angle = i_log.before.target_angle
        /\ i_log.event.inference_network = <<>> =>
                i_log.after.inference_network = i_log.before.inference_network

\* C26 as stated: while the network is set and running in a Running
\* simulation, two consecutive inferences are INFERENCE_TICK_INTERVAL ticks
\* apart, and an inference is never more than that many ticks away.
C26_InferenceEveryInterval ==
    /\ i_gap \in {0, INFERENCE_TICK_INTERVAL}
    /\ i_since < INFERENCE_TICK_INTERVAL

-----------------------------------------------------------------------------
(* SpecApply: apply_output of src/src/ai/training.rs applied again and     *)
(* again to a power matrix of i8 entries.  A network output is an f32      *)
(* rendered in fixed point (x * Scale).                                    *)

\* Entries of the matrix followed, inference steps followed.
MaxApplyCells == 2
MaxApplySteps == 3

I8_MIN == -128
I8_MAX == 127

\* Outputs of a Tanh output layer (main.rs), within [-1, 1], and outputs of
\* other output layers (Relu, LeakyRelu are unbounded).
TanhOutputs == {-Scale, -34, 7, Scale}
WideOutputs == {-13 * Scale, (127 * Scale) \div 10}

\* `x as i8` for an f32 x: truncation toward zero, saturating at the bounds
\* of i8.  The argument is x * Scale.
F32AsI8(x) ==
    LET t == TruncDiv(x, Scale)
    IN IF t < I8_MIN THEN I8_MIN ELSE IF t > I8_MAX THEN I8_MAX ELSE t

\* The value an i8 addition wraps to when overflow checks are off.
WrapI8(x) == ((x - I8_MIN) % 256) + I8_MIN

\* i8::clamp(-MAX_POWER, MAX_POWER)
ClampPower(x) == IF x < -MAX_POWER THEN -MAX_POWER ELSE IF x > MAX_POWER THEN MAX_POWER ELSE x

\* `*power + (output[i] * 10.) as i8` before it is wrapped or checked.
PowerSum(power, out) == power + F32AsI8(10 * out)

\* Variant of apply_output that stores the sum without clamping it.
apply_output_no_clamp(build, output, pm) ==
    LET over == {i \in 1 .. Len(pm) :
                    PowerSum(pm[i], output[i]) \notin I8_MIN .. I8_MAX}
    IN IF build = "debug" /\ over # {}
           THEN [panicked |-> TRUE, power_matrix |-> pm]
           ELSE [panicked |-> FALSE,
                 power_matrix |-> [i \in 1 .. Len(pm) |->
                                      WrapI8(PowerSum(pm[i], output[i]))]]

\* apply_output.  The i8 addition overflows when the sum leaves the range of
\* i8: a build with overflow checks (debug) panics at the first such entry,
\* the entries before it being already written; a build without (release)
\* wraps around.
apply_output(build, output, pm) ==
    LET over == {i \in 1 .. Len(pm) :
                    PowerSum(pm[i], output[i]) \notin I8_MIN .. I8_MAX}
        first == IF over = {} THEN Len(pm) + 1
                 ELSE CHOOSE i \in over : \A j \in over : i <= j
    IN IF build = "debug" /\ over # {}
           THEN [panicked |-> TRUE,
                 power_matrix |-> [i \in 1 .. Len(pm) |->
                                      IF i < first
                                          THEN ClampPower(PowerSum(pm[i], output[i]))
                                          ELSE pm[i]]]
           ELSE [panicked |-> FALSE,
                 power_matrix |-> [i \in 1 .. Len(pm) |->
                                      ClampPower(WrapI8(PowerSum(pm[i], output[i])))]]

\* Powers the matrix starts from: 0 after setup_simulation_for_networks,
\* other values of the Ui's sliders when the Ui sends its matrix while the
\* network runs.
StartPowers == {-MAX_POWER, 0, MAX_POWER - 5}

ApplyInit ==
    /\ a_build \in {"debug", "release"}
    /\ a_power_matrix \in [1 .. MaxApplyCells -> StartPowers]
    /\ a_status = "running"
    /\ a_steps = 0
    /\ a_wide = FALSE
    /\ a_last = <<>>
    /\ CoreIdle /\ MatIdle /\ InferIdle /\ EvalIdle

\* One inference step: `apply_output(output, &mut sim.power_matrix)`.
ApplyStep ==
    /\ a_status = "running"
    /\ a_steps < MaxApplySteps
    /\ \E output \in [1 .. MaxApplyCells -> TanhOutputs \cup WideOutputs] :
        LET applied == apply_output(a_build, output, a_power_matrix)
        IN /\ a_power_matrix' = applied.power_matrix
           /\ a_status' = IF applied.panicked THEN "panicked" ELSE "running"
           /\ a_wide' = (a_wide \/ \E i \in 1 .. MaxApplyCells : output[i] \in WideOutputs)
           /\ a_last' = [old |-> a_power_matrix, output |-> output,
                         new |-> applied.power_matrix]
    /\ a_steps' = a_steps + 1
    /\ UNCHANGED a_build
    /\ UNCHANGED <<coreVars, matVars, inferVars, evalVars>>

ApplyNext == ApplyStep

SpecApply == ApplyInit /\ [][ApplyNext]_vars

\* What the claim says one step leaves in the matrix.
StepAsClaimed ==
    /\ a_status = "running"
    /\ \A i \in 1 .. Len(a_power_matrix) :
            /\ a_power_matrix[i] \in -MAX_POWER .. MAX_POWER
            /\ a_last # <<>> =>
                    /\ PowerSum(a_last.old[i], a_last.output[i]) \in I8_MIN .. I8_MAX
                    /\ a_last.new[i] =
                            ClampPower(a_last.old[i] + F32AsI8(10 * a_last.output[i]))

\* C27 as stated: for every output vector, no i8 overflow or wrap-around
\* happens, each entry becomes clamp(old + trunc(10 * output) saturated to 8
\* bits, -MAX_POWER, MAX_POWER), and all entries stay within
\* [-MAX_POWER, MAX_POWER].
C27_Original == StepAsClaimed

\* C27: the same for every sequence of outputs within [-1, 1] (a Tanh output
\* layer).
C27_NoOverflowForTanhOutputs == ~a_wide => StepAsClaimed

\* Steps of outputs within [-1, 1] took place; in the last one an entry was
\* clamped at MAX_POWER and another one moved by a truncated amount.
C27_Witness ==
    /\ ~a_wide
    /\ a_steps = MaxApplySteps
    /\ \E i, j \in 1 .. Len(a_power_matrix) :
            /\ PowerSum(a_last.old[i], a_last.output[i]) > MAX_POWER
            /\ a_last.new[i] = MAX_POWER
            /\ a_last.output[j] = -34
            /\ a_last.new[j] = a_last.old[j] - 3

-----------------------------------------------------------------------------
(* SpecEval: evaluation_fn of src/src/app/training.rs, one action per       *)
(* inference step.  Positions are whole units; the particles of all classes *)
(* are numbered in the order in which the loops over classes and particles  *)
(* visit them, and every class holds the same number of them                *)
(* (setup_simulation_for_network).                                          *)

MaxEvalParticles == 2
MaxEvalSteps == 3

EvalParticles == 1 .. MaxEvalParticles

\* Where the particles can stand after the INFERENCE_TICK_INTERVAL ticks of a
\* step.
EvalPoints == {<<0, 0>>, <<590, 0>>, <<600, 20>>, <<0, 610>>}

\* Vec2::angled for the angles drawn in the model.
EvalDirections == {<<1, 0>>, <<0, 1>>}

TARGET_DISTANCE == 600
TARGET_RADIUS == 30

random_target_position(origin) ==
    {<<origin[1] + TARGET_DISTANCE * d[1], origin[2] + TARGET_DISTANCE * d[2]>> :
        d \in EvalDirections}

\* (target_position - position).length() < 30.
WithinTargetRadius(target, position) ==
    (target[1] - position[1]) * (target[1] - position[1])
        + (target[2] - position[2]) * (target[2] - position[2])
      < TARGET_RADIUS * TARGET_RADIUS

\* `target_reached &= ...` over the particles from p on, acc being the value of
\* target_reached so far.
RECURSIVE target_reached_from(_, _, _, _)
target_reached_from(acc, target, positions, p) ==
    IF p > MaxEvalParticles THEN acc
    ELSE target_reached_from(acc /\ WithinTargetRadius(target, positions[p]),
                             target, positions, p + 1)

\* `let mut target_reached = false;` and the two loops that follow.
target_reached(target, positions) ==
    target_reached_from(FALSE, target, positions, 1)

\* The second component of calc_geometric_centers_and_mean_distances: the mean
\* of the class centres, the mean of all particles with equal class sizes.
EvalGgc(positions) ==
    <<SeqSum([p \in EvalParticles |-> positions[p][1]]) \div MaxEvalParticles,
      SeqSum([p \in EvalParticles |-> positions[p][2]]) \div MaxEvalParticles>>

EvalInit ==
    /\ ev_positions \in [EvalParticles -> EvalPoints]
    /\ ev_target \in random_target_position(<<0, 0>>)
    /\ ev_target_hits = 0
    /\ ev_ticks_to_target = <<0>>
    /\ ev_steps = 0
    /\ ev_near_steps = 0
    /\ ev_status = "running"
    /\ CoreIdle /\ MatIdle /\ InferIdle /\ ApplyIdle

\* One pass of the outer loop: INFERENCE_TICK_INTERVAL ticks, the test of the
\* target and the inference.  ev_near_steps counts the steps at which every
\* active particle is within the radius.
EvalStep ==
    /\ ev_status = "running"
    /\ ev_steps < MaxEvalSteps
    /\ \E positions \in [EvalParticles -> EvalPoints] :
        LET counted == [ev_ticks_to_target EXCEPT
                            ![Len(ev_ticks_to_target)] = @ + INFERENCE_TICK_INTERVAL]
            all_near == \A p \in EvalParticles :
                            WithinTargetRadius(ev_target, positions[p])
        IN /\ ev_positions' = positions
           /\ ev_near_steps' = ev_near_steps + (IF all_near THEN 1 ELSE 0)
           /\ IF target_reached(ev_target, positions)
                 THEN /\ ev_target_hits' = ev_target_hits + 1
                      /\ ev_ticks_to_target' = Append(counted, 0)
                      /\ ev_target' \in random_target_position(EvalGgc(positions))
                 ELSE /\ ev_target_hits' = ev_target_hits
                      /\ ev_ticks_to_target' = counted
                      /\ ev_target' = ev_target
    /\ ev_steps' = ev_steps + 1
    /\ ev_status' = ev_status
    /\ UNCHANGED <<coreVars, matVars, inferVars, applyVars>>

\* The outer loop is over: evaluation_data is returned.
EvalReturn ==
    /\ ev_status = "running"
    /\ ev_steps = MaxEvalSteps
    /\ ev_status' = "done"
    /\ UNCHANGED <<ev_positions, ev_target, ev_target_hits, ev_ticks_to_target,
                   ev_steps, ev_near_steps>>
    /\ UNCHANGED <<coreVars, matVars, inferVars, applyVars>>

EvalNext == EvalStep \/ EvalReturn

SpecEval == EvalInit /\ [][EvalNext]_vars

\* C30: in evaluation_fn of app/training.rs every inference step at which
\* every active particle is within distance 30 of the target increments
\* target_hits and starts a new ticks_to_target counter, so that target_hits
\* is the number of such steps, at the end of the episode as well.
C30_TargetHitsCountNearSteps ==
    /\ ev_target_hits = ev_near_steps
    /\ Len(ev_ticks_to_target) = ev_near_steps + 1

====
